---- MODULE Spec2Model ----
(***************************************************************************)
(* A model of the ocodex-orchestrator crate (codex-rs/ocodex-orchestrator). *)
(*                                                                         *)
(* Spec       the pipeline of execute_with_delegation: optimise, A/B       *)
(*            compare, reorder, topological reconciliation, the sequential *)
(*            scheduler and run_one, with cancellation and failing hooks   *)
(*            and workers.                                                 *)
(* SpecOrder  the same pipeline on playbooks with depends_on edges, run    *)
(*            without cancellation and without errors.                     *)
(* SpecQueue  InMemoryTaskQueue: push_all, pop, pop_eligible.              *)
(* SpecDefaultQueue  a TaskQueue that keeps the trait's pop_eligible.      *)
(* SpecAdmit  tasks admitted to run concurrently through pop_eligible.     *)
(* SpecMemory threads calling merge, load and save on one memory service. *)
(* SpecAssoc  merge_json applied to three JSON trees in both groupings.    *)
(* SpecMerge  the pipeline with workers that return a memory_update.       *)
(* SpecClassical  ClassicalOptimizer.optimize called on a QuboInstance.    *)
(* SpecAb     compare called on two optimisers and a QuboInstance.         *)
(* SpecConcurrency  compute_concurrency called with a cap and a workload.  *)
(* SpecRouter BanditRouter: choose and observe on a slice of workers.      *)
(* SpecBus    InProcEventBus: subscribe, publish, receive, drop.           *)
(* SpecRunOne run_one called on several threads, mutex by mutex.           *)
(* SpecCareless  the pipeline with an optimiser whose order has a mistake. *)
(* SpecAnyDeps   ClassicalOptimizer.optimize on cyclic and foreign deps.   *)
(* SpecPublishers  several threads publishing on one InProcEventBus.       *)
(*                                                                         *)
(* Task ids are the one-character strings "1", "2", ...: their lexical     *)
(* order is the order of the numbers that stand for them here.             *)
(***************************************************************************)
EXTENDS Integers, Sequences, FiniteSets, TLC

\* ------------------------------------------------------------------ bounds

\* Tasks of a playbook.
MaxTasks == 2
\* depends_on entries of a playbook, all tasks together.
MaxEdges == 2
\* Configured max_concurrency (OrchestrationConfig; 1 is its default).
MaxConcurrency == 1
\* CPUs the environment probe reports.
MaxCpus == 2
\* Tasks pushed onto a queue in one run.
MaxPushed == 3
\* The writes_in_flight a caller passes to pop_eligible.
MaxWritesInFlight == 1
\* Threads that call the memory service.
MaxThreads == 2
\* Operations on the memory service in one behaviour.
MaxMemOps == 3
\* Tasks of a QuboInstance handed to an optimiser or to compare directly.
MaxQuboTasks == 3
\* depends_on entries of such an instance, all tasks together.
MaxQuboEdges == 2
\* horizon.capacity of such an instance.
MaxCapacity == 2
\* The cap and the ORCH_MAX_CONCURRENCY handed to compute_concurrency directly.
MaxCap == 3
\* The total_tasks handed to compute_concurrency directly.
MaxTotal == 3
\* Workers in the slice handed to the router.
MaxWorkers == 2
\* Outcomes the router is told of in one behaviour.
MaxObserved == 2
\* Subscribers of one event bus.
MaxSubscribers == 2
\* Events published on one event bus.
MaxPublished == 2

VARIABLES
    playbook,         \* Playbook.tasks handed to execute_with_delegation
    max_concurrency,  \* MultiAgentOrchestrator.max_concurrency
    workers,          \* what the configured workers return (MultiAgentOrchestrator.workers)
    canceled,         \* the AtomicBool shared by CancelSource and CancelToken
    canceledAt,       \* where execute_with_delegation stood when cancel was called
    raised,           \* the Err a policy hook or a worker returned to run_one
    pc,               \* position of execute_with_delegation
    optimizer,        \* the configured optimiser (MultiAgentOrchestrator.optimizer)
    optFailed,        \* the configured optimiser's optimize returned Err
    delta,            \* ScheduleDelta.order in use (after the fallback)
    ordered,          \* the local `ordered`: reordered, then reconciled
    rest,             \* what the scheduler's `for t in tasks` has not taken yet
    tpc,              \* per task: position of its run_one
    result,           \* per task: the local `result` of its run_one
    events,           \* the events a subscriber of the bus has been sent
    calls,            \* invocations of the collaborators (policy hooks, workers)
    memory,           \* MemorySnapshot.state held by the memory service
    disk,             \* .orch/memory.json
    ret,              \* what execute_with_delegation returned
    queue,            \* InMemoryTaskQueue.inner
    pushed,           \* how many tasks were pushed: the k-th pushed task has id k
    popped,           \* the tasks pop and pop_eligible returned, in order
    lastOp,           \* the last queue operation, its argument and its result
    inFlight,         \* tasks admitted through pop_eligible and not finished
    todo,             \* MemorySnapshot.todo held by the memory service
    mutex,            \* InMemoryMemoryService.inner's lock: the thread holding it, or 0
    thr,              \* per thread: 0, or the entry of hist of the merge it is in
    hist,             \* the memory operations, in the order they took the lock
    assoc,            \* three JSON trees and the two ways of merging them
    qinst,            \* the QuboInstance handed to an optimiser or to compare
    qout,             \* what the last call of optimize or compare returned
    conc,             \* compute_concurrency: its arguments, its environment, its result
    rworkers,         \* the slice of workers handed to BanditRouter::choose
    eps,              \* BanditRouter.eps, as a probability: "zero", "some" or "one"
    stats,            \* BanditRouter.stats: per worker index (tries, success)
    decision,         \* the task last routed and the RouteDecision returned for it
    senders,          \* InProcEventBus.inner: the Sender of every subscriber, in push order
    chan,             \* per subscriber: the events sent and not yet received
    alive,            \* the subscribers whose Receiver has not been dropped
    recvd,            \* per subscriber: the events its Receiver returned, in order
    sentAt,           \* per subscriber: how many events were published before it subscribed
    published,        \* how many times publish was called: the k-th event published is k
    publishing,       \* the position of publish in its loop over the senders, 0 outside publish
    runner,           \* per thread: where its call of run_one stands, and what it has done
    locks,            \* per mutex of the core: the thread that holds it, or 0
    pubs              \* per thread: the event it publishes and its position in the loop of publish

pipeVars == <<playbook, max_concurrency, workers, canceled, canceledAt, raised, pc, optimizer,
              optFailed, delta, ordered, rest, tpc, result, events, calls, memory, disk, ret>>
pipeOther == <<playbook, max_concurrency, workers, canceled, canceledAt, raised, pc, optimizer,
               optFailed, delta, ordered, rest, tpc, result, events, calls, disk, ret>>
queueVars == <<queue, pushed, popped, lastOp, inFlight>>
memVars == <<todo, mutex, thr, hist, assoc>>
qcVars == <<qinst, qout>>
routerVars == <<rworkers, eps, stats, decision>>
busVars == <<senders, chan, alive, recvd, sentAt, published, publishing>>
runVars == <<runner, locks, pubs>>
auxVars == <<qcVars, conc, routerVars, busVars, runVars>>
vars == <<pipeVars, queueVars, memVars, auxVars>>

\* ------------------------------------------------------------------ helpers

Range(s) == {s[i] : i \in 1..Len(s)}

Max(S) == CHOOSE x \in S : \A y \in S : y <= x

Min(S) == CHOOSE x \in S : \A y \in S : x <= y

Min2(a, b) == IF a <= b THEN a ELSE b

Max2(a, b) == IF a >= b THEN a ELSE b

\* All orders (sequences without repetition) of the elements of S: the orders
\* in which a HashMap may iterate over the keys S.
Orders(S) == {s \in [1..Cardinality(S) -> S] : \A i, j \in 1..Cardinality(S) : s[i] = s[j] => i = j}

\* Sequences over S of length at most n.
SeqsUpTo(S, n) == UNION {[1..k -> S] : k \in 0..n}

\* Option<T>: None is <<>>, Some(x) is <<x>>.
None == <<>>

Some(x) == <<x>>

\* ------------------------------------------------------------------ tasks

TaskIds == 1..MaxTasks

\* An id that names no task of the playbook.
UnknownId == MaxTasks + 1

\* payload.needs_write_lock: a boolean, or the key is absent.
NeedsValues == {"true", "false", "absent"}

\* t.payload.get("needs_write_lock").and_then(|v| v.as_bool()).unwrap_or(false)
NeedsWriteLock(t) == t.needs_write_lock = "true"

Task(id, needs, deps) == [id |-> id, needs_write_lock |-> needs, depends_on |-> deps]

IdsOf(tasks) == {tasks[i].id : i \in 1..Len(tasks)}

TaskOf(tasks, id) == tasks[CHOOSE i \in 1..Len(tasks) : tasks[i].id = id]

DepsOf(tasks, id) == TaskOf(tasks, id).depends_on

EdgeCount(tasks) == LET RECURSIVE Sum(_)
                        Sum(i) == IF i = 0 THEN 0 ELSE Cardinality(tasks[i].depends_on) + Sum(i - 1)
                    IN Sum(Len(tasks))

\* ------------------------------------------------------------------ events

Ev(kind, message, arg, task_id) == [kind |-> kind, message |-> message, arg |-> arg, task_id |-> task_id]

Publish(evs, e) == Append(evs, e)

IsStart(e, id) == e.message = "task:start" /\ e.arg = Some(id)

IsDone(e, id) == e.message = "task:done" /\ e.task_id = Some(id)

\* The ids of the task:start events, in publication order.
RECURSIVE Starts(_)
Starts(evs) == IF evs = <<>> THEN <<>>
               ELSE LET e == evs[Len(evs)]
                        front == Starts(SubSeq(evs, 1, Len(evs) - 1))
                    IN IF e.message = "task:start" THEN front \o e.arg ELSE front

\* ------------------------------------------------------------------ qc.rs

QuboTask(id, priority, write, deps) == [id |-> id, priority |-> priority, write |-> write, depends_on |-> deps]

\* QuboInstance: the tasks, horizon.capacity and horizon.write_cap, and the
\* lateness and priority weights as cost_order reads them (`as i64`).
QuboInstance(tasks, capacity, write_cap, lateness, priority) ==
    [tasks |-> tasks, capacity |-> capacity, write_cap |-> write_cap,
     lateness |-> lateness, priority |-> priority]

InstIds(inst) == {inst.tasks[i].id : i \in 1..Len(inst.tasks)}

InstOrder(inst) == [i \in 1..Len(inst.tasks) |-> inst.tasks[i].id]

\* The loop of topo_sort_with_priority with the sort left out: the ready
\* tasks are taken in the order they were pushed.
SortByPriorityNone(ready, prio) == ready

\* ready.sort_by_key(|i| -prio[i]): a stable sort, greatest priority first.
RECURSIVE SortByPriority(_, _)
SortByPriority(ready, prio) ==
    IF ready = <<>> THEN <<>>
    ELSE LET best == Max({prio[ready[i]] : i \in 1..Len(ready)})
             k == CHOOSE i \in 1..Len(ready) :
                      /\ prio[ready[i]] = best
                      /\ \A j \in 1..(i - 1) : prio[ready[j]] # best
         IN <<ready[k]>> \o SortByPriority(SubSeq(ready, 1, k - 1) \o SubSeq(ready, k + 1, Len(ready)), prio)

\* The while loop of topo_sort_with_priority without the cycle fallback: the
\* ids left in `remaining` are not appended.
RECURSIVE ClassicalLoopNoFallback(_, _, _, _)
ClassicalLoopNoFallback(deps, prio, ready, order) ==
    IF ready = <<>>
    THEN {order}
    ELSE LET sorted == SortByPriority(ready, prio)
             n == Head(sorted)
             ready1 == Tail(sorted)
             deps1 == [k \in DOMAIN deps \ {n} |-> deps[k] \ {n}]
             newly == {k \in DOMAIN deps1 : deps1[k] = {} /\ k \notin Range(ready1)}
         IN UNION {ClassicalLoopNoFallback(deps1, prio, ready1 \o p, Append(order, n)) : p \in Orders(newly)}

\* The while loop of topo_sort_with_priority. deps maps the ids not yet taken
\* to their unmet dependencies; newly ready ids are pushed in the iteration
\* order of the HashMap `deps`, which is any order.
RECURSIVE ClassicalLoop(_, _, _, _)
ClassicalLoop(deps, prio, ready, order) ==
    IF ready = <<>>
    THEN {order \o r : r \in Orders(DOMAIN deps)}
    ELSE LET sorted == SortByPriority(ready, prio)
             n == Head(sorted)
             ready1 == Tail(sorted)
             deps1 == [k \in DOMAIN deps \ {n} |-> deps[k] \ {n}]
             newly == {k \in DOMAIN deps1 : deps1[k] = {} /\ k \notin Range(ready1)}
         IN UNION {ClassicalLoop(deps1, prio, ready1 \o p, Append(order, n)) : p \in Orders(newly)}

\* ClassicalOptimizer::topo_sort_with_priority: every order it can return.
topo_sort_with_priority(inst) ==
    LET ids == InstIds(inst)
        t(id) == inst.tasks[CHOOSE i \in 1..Len(inst.tasks) : inst.tasks[i].id = id]
        deps == [id \in ids |-> t(id).depends_on]
        prio == [id \in ids |-> t(id).priority]
    IN UNION {ClassicalLoop(deps, prio, r, <<>>) : r \in Orders({id \in ids : deps[id] = {}})}

\* ------------------------------------------------------------------ ab.rs

\* The writes of one chunk of `order` above write_cap, times 10.
ChunkPenalty(inst, order, from, to) ==
    LET isWrite(id) == \E i \in 1..Len(inst.tasks) : inst.tasks[i].id = id /\ inst.tasks[i].write
        writes == Cardinality({i \in from..to : isWrite(order[i])})
    IN IF writes > inst.write_cap THEN (writes - inst.write_cap) * 10 ELSE 0

cost_order(inst, order) ==
    LET prioOf(id) == IF id \in InstIds(inst)
                      THEN inst.tasks[CHOOSE i \in 1..Len(inst.tasks) : inst.tasks[i].id = id].priority
                      ELSE 0
        RECURSIVE Walk(_)
        Walk(pos) == IF pos = 0 THEN 0
                     ELSE Walk(pos - 1) + (pos - 1) * inst.lateness - prioOf(order[pos]) * inst.priority
        cap == Max2(inst.capacity, 1)
        RECURSIVE Buckets(_)
        Buckets(from) == IF from > Len(order) THEN 0
                         ELSE ChunkPenalty(inst, order, from, Min2(from + cap - 1, Len(order))) + Buckets(from + cap)
    IN Walk(Len(order)) + Buckets(1)

Winner(cc, qc) == IF qc < cc THEN "qc" ELSE IF cc < qc THEN "classical" ELSE "tie"

\* compare(classical, qc, inst) for the orders the two optimisers returned:
\* bases, the classical baseline's possible orders; qcs, the other optimiser's
\* possible results, None standing for Err (which falls back to the baseline).
compare(bases, qcs, inst) ==
    {[classical_cost |-> cost_order(inst, base),
      qc_cost |-> cost_order(inst, IF q = None THEN base ELSE q[1]),
      winner |-> Winner(cost_order(inst, base), cost_order(inst, IF q = None THEN base ELSE q[1]))]
        : base \in bases, q \in qcs}

\* ------------------------------------------------------------------ scheduler.rs

\* compute_concurrency(cap, total_tasks) with ORCH_MAX_CONCURRENCY parsed to
\* env_cap (None when unset or unparsable) and `cpus` available CPUs.
compute_concurrency(cap, total_tasks, env_cap, cpus) ==
    LET cpu_limit == Max2(IF cpus >= 1 THEN cpus - 1 ELSE 0, 1)
        hard_cap == IF env_cap = None THEN Max2(cap, 1) ELSE env_cap[1]
    IN Min2(Min2(hard_cap, cpu_limit), Max2(total_tasks, 1))


\* ------------------------------------------------------------------ JSON

\* serde_json::Value, tagged: Null, Bool, Number, Array, Object.
JNull == [t |-> "null", v |-> {}]

JBool(b) == [t |-> "bool", v |-> b]

JNum(n) == [t |-> "num", v |-> n]

JArr(s) == [t |-> "arr", v |-> s]

JObj(f) == [t |-> "obj", v |-> f]

EmptyObj == JObj(<<>>)

HasKey(j, k) == j.t = "obj" /\ k \in DOMAIN j.v

\* A merge that replaces the base by the patch.
merge_json_replace(base, patch) == patch

\* A merge that also concatenates two arrays.
RECURSIVE merge_json_concat(_, _)
merge_json_concat(base, patch) ==
    IF base.t = "obj" /\ patch.t = "obj"
    THEN JObj([k \in DOMAIN base.v \cup DOMAIN patch.v |->
                  IF k \notin DOMAIN patch.v THEN base.v[k]
                  ELSE IF k \in DOMAIN base.v THEN merge_json_concat(base.v[k], patch.v[k])
                  ELSE patch.v[k]])
    ELSE IF base.t = "arr" /\ patch.t = "arr"
    THEN JArr(base.v \o patch.v)
    ELSE patch

\* memory.rs merge_json: objects merge key by key, anything else is replaced
\* by the patch.
RECURSIVE merge_json(_, _)
merge_json(base, patch) ==
    IF base.t = "obj" /\ patch.t = "obj"
    THEN JObj([k \in DOMAIN base.v \cup DOMAIN patch.v |->
                  IF k \notin DOMAIN patch.v THEN base.v[k]
                  ELSE IF k \in DOMAIN base.v THEN merge_json(base.v[k], patch.v[k])
                  ELSE patch.v[k]])
    ELSE patch

\* lib.rs merge_json_values: as merge_json, and two arrays are concatenated.
RECURSIVE merge_json_values(_, _)
merge_json_values(base, patch) ==
    IF base.t = "obj" /\ patch.t = "obj"
    THEN JObj([k \in DOMAIN base.v \cup DOMAIN patch.v |->
                  IF k \notin DOMAIN patch.v THEN base.v[k]
                  ELSE IF k \in DOMAIN base.v THEN merge_json_values(base.v[k], patch.v[k])
                  ELSE patch.v[k]])
    ELSE IF base.t = "arr" /\ patch.t = "arr"
    THEN JArr(base.v \o patch.v)
    ELSE patch

\* A service whose state becomes the patch.
MemoryReplaced(state, state_patch) == state_patch

\* InMemoryMemoryService::merge on the state: a null patch changes nothing, a
\* null state becomes {} before the patch is merged into it.
MemoryMerge(state, state_patch) ==
    IF state_patch.t = "null" THEN state
    ELSE merge_json(IF state.t = "null" THEN EmptyObj ELSE state, state_patch)

\* ------------------------------------------------------------------ lib.rs

\* The QuboInstance execute_with_delegation builds: no depends_on, priority
\* from payload.priority (no task drawn here has the key: 0), write_cap 1,
\* capacity max_concurrency, weights 1.0.
InstanceOf(tasks, cap) ==
    QuboInstance([i \in 1..Len(tasks) |-> QuboTask(tasks[i].id, 0, NeedsWriteLock(tasks[i]), {})],
                 cap, 1, 1, 1)

\* `for id in delta.order { if let Some(t) = by_id.remove(id) { ordered.push(t) } }`
RECURSIVE TakeKnown(_, _)
TakeKnown(order, by_id) ==
    IF order = <<>> THEN <<>>
    ELSE IF Head(order) \in by_id
         THEN <<Head(order)>> \o TakeKnown(Tail(order), by_id \ {Head(order)})
         ELSE TakeKnown(Tail(order), by_id)

\* Lines 208-211: the tasks in delta.order, then the tasks it does not name in
\* the iteration order of the HashMap by_id. Every list it can produce.
Reordered(tasks, order) ==
    LET known == TakeKnown(order, IdsOf(tasks))
    IN {known \o extra : extra \in Orders(IdsOf(tasks) \ Range(known))}

\* The loop `while let Some(id) = ready.pop()`: ready is kept sorted and pop
\* takes its last element, the greatest id.
RECURSIVE Kahn(_, _, _, _)
Kahn(tasks, ready, indeg, out) ==
    IF ready = {} THEN out
    ELSE LET id == Max(ready)
             children == {c \in IdsOf(tasks) : id \in DepsOf(tasks, c)}
             indeg1 == [c \in DOMAIN indeg |-> IF c \in children THEN indeg[c] - 1 ELSE indeg[c]]
         IN Kahn(tasks, (ready \ {id}) \cup {c \in children : indeg1[c] = 0}, indeg1, Append(out, id))

\* A reconciliation that returns what Kahn's loop emitted and drops the tasks
\* the loop left.
topo_order_without_residue(tasks) ==
    LET indeg == [id \in IdsOf(tasks) |-> Cardinality(DepsOf(tasks, id))]
    IN {Kahn(tasks, {id \in IdsOf(tasks) : indeg[id] = 0}, indeg, <<>>)}

\* topo_order_with_hint(tasks): every list it can return. The tasks go into
\* the HashMap by_id first, so their order in `tasks` is not read again; the
\* tasks Kahn's loop leaves are appended in the iteration order of by_id.
topo_order_with_hint(tasks) ==
    LET indeg == [id \in IdsOf(tasks) |-> Cardinality(DepsOf(tasks, id))]
        out == Kahn(tasks, {id \in IdsOf(tasks) : indeg[id] = 0}, indeg, <<>>)
    IN {out \o left : left \in Orders(IdsOf(tasks) \ Range(out))}

\* The task records for a list of ids.
TasksIn(tasks, ids) == [i \in 1..Len(ids) |-> TaskOf(tasks, ids[i])]


\* ------------------------------------------------------------------ inputs

\* Playbooks: up to MaxTasks tasks with distinct ids, in any order, each with
\* or without the write lock, with at most MaxEdges depends_on entries that
\* name tasks of the playbook, the task itself or no task at all.
TaskChoices(withDeps, needsValues) ==
    {Task(id, needs, deps) : id \in TaskIds, needs \in needsValues,
                             deps \in IF withDeps THEN SUBSET (TaskIds \cup {UnknownId}) ELSE {{}}}

Playbooks(withDeps, needsValues) ==
    {p \in SeqsUpTo(TaskChoices(withDeps, needsValues), MaxTasks) :
        /\ \A i, j \in 1..Len(p) : p[i].id = p[j].id => i = j
        /\ EdgeCount(p) <= MaxEdges}

\* The optimisers an orchestrator is configured with: the ClassicalOptimizer,
\* the ReverseOptimizer of tests/ab.rs, one that always fails, one that
\* returns the instance's order with one mistake in it, and one that may fail
\* or return any list of ids (ids left out, repeated or unknown).
OptimizerKinds == {"classical", "reverse", "failing", "careless", "any"}

Reverse(s) == [i \in 1..Len(s) |-> s[Len(s) + 1 - i]]

\* The orders of a careless optimiser: nothing at all, the instance's order
\* reversed, or that order with one id left out, named twice, or replaced by
\* an id that names no task.
CarelessOrders(o) ==
    {<<>>, Reverse(o)}
        \cup {SubSeq(o, 1, i - 1) \o SubSeq(o, i + 1, Len(o)) : i \in 1..Len(o)}
        \cup {Append(o, o[i]) : i \in 1..Len(o)}
        \cup {[o EXCEPT ![i] = UnknownId] : i \in 1..Len(o)}

\* What optimize(inst) can return: None for Err, Some(order) for Ok.
Optimize(kind, inst) ==
    CASE kind = "classical" -> {Some(o) : o \in topo_sort_with_priority(inst)}
      [] kind = "reverse" -> {Some(Reverse(InstOrder(inst)))}
      [] kind = "failing" -> {None}
      [] kind = "careless" -> {Some(o) : o \in CarelessOrders(InstOrder(inst))}
      [] OTHER -> {None} \cup {Some(o) : o \in SeqsUpTo(InstIds(inst) \cup {UnknownId}, Len(inst.tasks))}

\* The workers an orchestrator is configured with: workers whose result has
\* no memory_update, and workers whose result has one.
WorkerKinds == {"plain", "updating"}

\* The key of its own a task's memory_update may write.
KeyOf(id) == <<"k1", "k2", "k3", "k4">>[id]

\* What a worker's run returns for a task when it succeeds: with a
\* memory_update it writes a key every task writes, a key of the task's own,
\* or an array under a key every task writes.
WorkerResults(id) ==
    IF workers = "plain"
    THEN {JObj("task" :> JNum(id))}
    ELSE {JObj(("task" :> JNum(id)) @@ ("memory_update" :> JObj(k :> v))) :
             <<k, v>> \in {<<"shared", JNum(id)>>, <<KeyOf(id), JNum(id)>>, <<"log", JArr(<<JNum(id)>>)>>}}

\* The messages a policy hook fails with (Result<(), String>).
HookMessages == {"denied", "quota"}

\* ORCH_MAX_CONCURRENCY as compute_concurrency parses it.
EnvCaps == {None} \cup {Some(n) : n \in 0..MaxConcurrency}

\* ------------------------------------------------------------------ memory.rs

\* MemorySnapshot
Snapshot(state, td) == [state |-> state, todo |-> td]

\* TodoItem: its title and its status.
TodoItem(title, status) == [title |-> title, status |-> status]

\* MemoryDelta
MemoryDelta(state_patch, todo_add, todo_update) ==
    [state_patch |-> state_patch, todo_add |-> todo_add, todo_update |-> todo_update]

\* One pair of todo_update: the first item with that title gets the status.
UpdateOne(td, u) ==
    LET hits == {i \in 1..Len(td) : td[i].title = u[1]}
    IN IF hits = {} THEN td
       ELSE LET first == CHOOSE i \in hits : \A j \in hits : i <= j
            IN [td EXCEPT ![first] = TodoItem(td[first].title, u[2])]

\* The loop over todo_update.
RECURSIVE UpdateAll(_, _)
UpdateAll(td, updates) ==
    IF updates = <<>> THEN td ELSE UpdateAll(UpdateOne(td, Head(updates)), Tail(updates))

\* InMemoryMemoryService::merge on the todo list: extend, then update.
TodoMerge(td, memDelta) == UpdateAll(td \o memDelta.todo_add, memDelta.todo_update)

\* The state_patch values the callers merge without a todo.
Patches ==
    {JObj("a" :> JObj("c" :> JNum(2))),
     JObj("a" :> JNum(1)),
     JObj("l" :> JArr(<<JNum(1)>>))}

\* The deltas the callers merge: the patches, the delta of the
\* memory_merge_and_load test, and a null patch with a todo_update.
Deltas ==
    {MemoryDelta(p, <<>>, <<>>) : p \in Patches}
        \cup {MemoryDelta(JObj("a" :> JObj("b" :> JNum(1))), <<TodoItem("t", "open")>>, <<>>),
              MemoryDelta(JNull, <<>>, <<<<"t", "done">>>>)}

\* The snapshots the callers save.
SavedSnapshots == {Snapshot(JObj("s" :> JNum(0)), <<>>)}

\* A lock that is never held.
MutexFreeAlways == TRUE

\* self.inner.lock(): the guard is granted when no thread holds the lock.
MutexFree == mutex = 0

\* InMemoryMemoryService::default(): a null state and no todo; no thread
\* is in a call.
InitMemoryIdle ==
    /\ todo = <<>>
    /\ mutex = 0
    /\ thr = [th \in 1..MaxThreads |-> 0]
    /\ hist = <<>>

\* merge, lines 70-76: the lock is taken and state_patch merged into state.
MergeState ==
    \E th \in 1..MaxThreads, memDelta \in Deltas :
        /\ Len(hist) < MaxMemOps /\ thr[th] = 0 /\ MutexFree
        /\ mutex' = th
        /\ memory' = MemoryMerge(memory, memDelta.state_patch)
        /\ hist' = Append(hist, [th |-> th, op |-> "merge", arg |-> memDelta, before |-> Snapshot(memory, todo),
                                 ret |-> None])
        /\ thr' = [thr EXCEPT ![th] = Len(hist) + 1]
        /\ UNCHANGED <<todo, assoc, pipeOther, queueVars, auxVars>>

\* merge, lines 77-84: todo extended and updated, the snapshot cloned and
\* returned, the guard dropped.
MergeTodo ==
    \E th \in 1..MaxThreads :
        /\ thr[th] # 0
        /\ todo' = TodoMerge(todo, hist[thr[th]].arg)
        /\ hist' = [hist EXCEPT ![thr[th]].ret = Some(Snapshot(memory, todo'))]
        /\ mutex' = 0
        /\ thr' = [thr EXCEPT ![th] = 0]
        /\ UNCHANGED <<memory, assoc, pipeOther, queueVars, auxVars>>

\* load: the snapshot cloned under the lock.
Load ==
    \E th \in 1..MaxThreads :
        /\ Len(hist) < MaxMemOps /\ thr[th] = 0 /\ MutexFree
        /\ hist' = Append(hist, [th |-> th, op |-> "load", arg |-> None, before |-> Snapshot(memory, todo),
                                 ret |-> Some(Snapshot(memory, todo))])
        /\ UNCHANGED <<memory, todo, mutex, thr, assoc, pipeOther, queueVars, auxVars>>

\* save: the snapshot replaced under the lock.
Save ==
    \E th \in 1..MaxThreads, snapshot \in SavedSnapshots :
        /\ Len(hist) < MaxMemOps /\ thr[th] = 0 /\ MutexFree
        /\ memory' = snapshot.state
        /\ todo' = snapshot.todo
        /\ hist' = Append(hist, [th |-> th, op |-> "save", arg |-> snapshot, before |-> Snapshot(memory, todo),
                                 ret |-> Some(snapshot)])
        /\ UNCHANGED <<mutex, thr, assoc, pipeOther, queueVars, auxVars>>

\* What one operation makes of a snapshot when nothing runs beside it.
ApplyOp(snap, e) ==
    CASE e.op = "merge" -> Snapshot(MemoryMerge(snap.state, e.arg.state_patch), TodoMerge(snap.todo, e.arg))
      [] e.op = "save" -> e.arg
      [] OTHER -> snap

\* The snapshot after the first i operations of hist, run one after the
\* other on a new service.
RECURSIVE SeqSnap(_)
SeqSnap(i) == IF i = 0 THEN Snapshot(JNull, <<>>) ELSE ApplyOp(SeqSnap(i - 1), hist[i])

\* The JSON trees merge_json is applied to.
Trees ==
    {JNum(5),
     JObj("k" :> JNum(5)),
     JObj("k" :> JObj("x" :> JNum(1))),
     JObj("k" :> JObj("y" :> JNum(2))),
     JObj("k" :> JArr(<<JNum(1)>>)),
     JObj("j" :> JNum(7))}

\* No trees are being merged.
InitAssocIdle == assoc = [a |-> JNull, b |-> JNull, c |-> JNull, applied |-> TRUE, left |-> JNull, right |-> JNull]

\* Three trees drawn from Trees.
InitAssoc ==
    assoc \in {[a |-> a, b |-> b, c |-> c, applied |-> FALSE, left |-> JNull, right |-> JNull] :
                  a \in Trees, b \in Trees, c \in Trees}

\* merge_json(b into a) then merge_json(c into the result), and merge_json of
\* (c merged into b) into a.
ApplyMerges ==
    /\ ~assoc.applied
    /\ assoc' = [assoc EXCEPT !.applied = TRUE,
                              !.left = merge_json(merge_json(assoc.a, assoc.b), assoc.c),
                              !.right = merge_json(assoc.a, merge_json(assoc.b, assoc.c))]
    /\ UNCHANGED <<pipeVars, queueVars, todo, mutex, thr, hist, auxVars>>

\* ------------------------------------------------------------------ direct calls of qc.rs and ab.rs

\* ScheduleDelta.confidence of the ClassicalOptimizer, in tenths (0.5).
ClassicalConfidence == 5

\* ScheduleDelta.confidence of compare's fallback delta, in tenths (0.0).
FallbackConfidence == 0

\* ScheduleDelta.confidence of the ReverseOptimizer of tests/ab.rs, in tenths (0.4).
ReverseConfidence == 4

\* QuboTask.priority: the priorities the tests use.
Priorities == {0, 5, 10}

\* Sets of at most k pairs of P.
RECURSIVE EdgeSets(_, _)
EdgeSets(P, k) ==
    IF k = 0 THEN {{}}
    ELSE LET S == EdgeSets(P, k - 1) IN S \cup {E \cup {e} : E \in S, e \in P}

\* The task lists in which n tasks are handed over: by ascending id and, if
\* both, by descending id.
ListOrders(n, both) ==
    {[i \in 1..n |-> i]} \cup (IF both THEN {[i \in 1..n |-> n + 1 - i]} ELSE {})

\* An id that no task of an instance carries.
NoTaskId == MaxQuboTasks + 1

\* qinst is a QuboInstance of up to MaxQuboTasks tasks with the ids 1..n,
\* priorities from prios, at most maxEdges depends_on entries naming tasks of
\* the instance (the task itself included) or ids of strangers, write flags
\* from writes, horizon.capacity from caps, write_cap 1 and the weights 1.0.
DrawInstanceOver(both, maxEdges, writes, caps, prios, strangers) ==
    \E n \in 0..MaxQuboTasks :
    \E l \in ListOrders(n, both), prio \in [1..n -> prios], write \in [1..n -> writes],
       E \in EdgeSets((1..n) \X ((1..n) \cup strangers), maxEdges), cap \in caps :
          qinst = QuboInstance([i \in 1..n |-> QuboTask(l[i], prio[l[i]], write[l[i]],
                                                         {d \in (1..n) \cup strangers : <<l[i], d>> \in E})],
                               cap, 1, 1, 1)

\* The same with the priorities from Priorities and every depends_on entry
\* naming a task of the instance.
DrawInstance(both, maxEdges, writes, caps) ==
    DrawInstanceOver(both, maxEdges, writes, caps, Priorities, {})

\* QuantumOptimizer::optimize: every Result it can return, None for Err and
\* Some(ScheduleDelta) for Ok, the delta as its order and its confidence.
optimize(kind, inst) ==
    CASE kind = "classical" ->
           {Some([order |-> o, confidence |-> ClassicalConfidence]) : o \in topo_sort_with_priority(inst)}
      [] kind = "reverse" -> {Some([order |-> Reverse(InstOrder(inst)), confidence |-> ReverseConfidence])}
      [] OTHER -> {None}

\* No optimiser was called.
InitQcIdle ==
    /\ qinst = QuboInstance(<<>>, 1, 1, 1, 1)
    /\ qout = [op |-> "none"]

\* ClassicalOptimizer.optimize(&inst).
ClassicalOptimize ==
    /\ qout.op = "none"
    /\ \E r \in optimize("classical", qinst) :
          qout' = [op |-> "optimize", order |-> r[1].order, confidence |-> r[1].confidence]
    /\ UNCHANGED <<qinst, conc, routerVars, busVars, pipeVars, queueVars, memVars, runVars>>

\* The optimisers handed to compare.
ComparedKinds == {"classical", "reverse", "failing"}

\* compare(classical, qc, inst), lines 36-41: both optimisers are called, the
\* first falls back to the instance's order, the second to the first's delta.
CompareAb ==
    /\ qout.op = "none"
    /\ \E classical \in ComparedKinds, qc \in ComparedKinds :
       \E b \in optimize(classical, qinst), q \in optimize(qc, qinst) :
          LET base == IF b = None THEN [order |-> InstOrder(qinst), confidence |-> FallbackConfidence] ELSE b[1]
              qd == IF q = None THEN base ELSE q[1]
          IN \E res \in compare({base.order}, {Some(qd.order)}, qinst) :
                qout' = [op |-> "compare", classical |-> classical, qc |-> qc, base |-> base,
                         classical_cost |-> res.classical_cost, qc_cost |-> res.qc_cost,
                         winner |-> res.winner, qc_delta |-> qd]
    /\ UNCHANGED <<qinst, conc, routerVars, busVars, pipeVars, queueVars, memVars, runVars>>

\* ------------------------------------------------------------------ direct calls of scheduler.rs

\* compute_concurrency was not called.
InitConcIdle == conc = [called |-> FALSE]

\* A cap, a workload, ORCH_MAX_CONCURRENCY unset or set to a number, and the
\* CPUs of the machine.
InitConc ==
    conc \in {[called |-> FALSE, cap |-> cap, total_tasks |-> total, env_cap |-> e, cpus |-> cpus]
                 : cap \in 0..MaxCap, total \in 0..MaxTotal,
                   e \in {None} \cup {Some(n) : n \in 0..MaxCap}, cpus \in 1..(MaxCpus + 1)}

\* compute_concurrency(cap, total_tasks).
ComputeConcurrency ==
    /\ ~conc.called
    /\ conc' = [called |-> TRUE, cap |-> conc.cap, total_tasks |-> conc.total_tasks, env_cap |-> conc.env_cap,
                cpus |-> conc.cpus,
                target |-> compute_concurrency(conc.cap, conc.total_tasks, conc.env_cap, conc.cpus)]
    /\ UNCHANGED <<qcVars, routerVars, busVars, pipeVars, queueVars, memVars, runVars>>


\* ------------------------------------------------------------------ router.rs

\* TaskWorker::name of the workers, and a name no worker has.
WorkerNames == {"x", "y"}

NoSuchWorker == "z"

\* What a task asks for: the routed tasks are of two kinds.
TaskKinds == {"a", "b"}

\* A worker as the router sees it: its name and the kinds of task for which
\* can_handle returns true.
Worker(name, handles) == [name |-> name, handles |-> handles]

\* Slices of up to MaxWorkers workers; two workers may share a name, and a
\* worker may handle no task at all.
WorkerSlices == SeqsUpTo({Worker(n, h) : n \in WorkerNames, h \in {{}, {"a"}}}, MaxWorkers)

\* The routed task: payload.worker as a string (None when the key is absent
\* or holds no string) and the kind can_handle looks at.
RoutedTasks == {[worker |-> w, kind |-> k] : w \in {None} \cup {Some(n) : n \in WorkerNames \cup {NoSuchWorker}},
                                             k \in TaskKinds}

\* Lines 19-24 with the explicit route taken out: a task that names a worker
\* is routed like any other.
ExplicitRouteNever(task, ws) == None

\* Lines 19-24: the first worker whose name is payload.worker.
ExplicitRoute(task, ws) ==
    IF task.worker = None THEN None
    ELSE LET named == {i \in 0..(Len(ws) - 1) : ws[i + 1].name = task.worker[1]}
         IN IF named = {} THEN None ELSE Some(Min(named))

\* Lines 25-28: the first worker whose can_handle(task) is true.
CapabilityRoute(task, ws) ==
    LET able == {i \in 0..(Len(ws) - 1) : task.kind \in ws[i + 1].handles}
    IN IF able = {} THEN None ELSE Some(Min(able))

\* Line 40: the success rate of worker i as the fraction <<s, t>>, 0.5 for a
\* worker never tried.
Rate(st, i) == IF i \notin DOMAIN st \/ st[i][1] = 0 THEN <<1, 2>> ELSE <<st[i][2], st[i][1]>>

\* a > b for two fractions with positive denominators.
RateGreater(a, b) == a[1] * b[2] > b[1] * a[2]

\* An exploit branch that takes the first worker whatever the statistics.
ExploitFirst(st, n) == 0

\* Lines 38-42: `for i in 0..workers.len()` from position i on; best and
\* best_rate are replaced when `rate > best_rate`.
RECURSIVE ExploitLoop(_, _, _, _, _)
ExploitLoop(st, n, i, best, best_rate) ==
    IF i >= n THEN best
    ELSE IF RateGreater(Rate(st, i), best_rate)
         THEN ExploitLoop(st, n, i + 1, i, Rate(st, i))
         ELSE ExploitLoop(st, n, i + 1, best, best_rate)

\* Lines 36-43: best starts at 0 and best_rate at -1.0.
Exploit(st, n) == ExploitLoop(st, n, 0, 0, <<0 - 1, 1>>)

\* Whether `roll < self.eps` can be true and can be false: roll is in [0, 1).
CanExplore == eps # "zero"

CanExploit == eps # "one"

\* BanditRouter::choose: every RouteDecision it can return.
choose(task, ws) ==
    IF ExplicitRoute(task, ws) # None THEN {[index |-> ExplicitRoute(task, ws)[1], reason |-> "explicit"]}
    ELSE IF CapabilityRoute(task, ws) # None
         THEN {[index |-> CapabilityRoute(task, ws)[1], reason |-> "capability"]}
         ELSE {[index |-> i, reason |-> "explore"] : i \in IF CanExplore THEN 0..(Max2(Len(ws), 1) - 1) ELSE {}}
              \cup {[index |-> Exploit(stats, Len(ws)), reason |-> "exploit"] : x \in IF CanExploit THEN {1} ELSE {}}

\* An observe that counts every outcome as a success.
observe_all_success(st, index, success) ==
    LET old == IF index \in DOMAIN st THEN st[index] ELSE <<0, 0>>
    IN [i \in DOMAIN st \cup {index} |-> IF i = index THEN <<old[1] + 1, old[2] + 1>> ELSE st[i]]

\* BanditRouter::observe.
observe(st, index, success) ==
    LET old == IF index \in DOMAIN st THEN st[index] ELSE <<0, 0>>
        new == <<old[1] + 1, IF success THEN old[2] + 1 ELSE old[2]>>
    IN [i \in DOMAIN st \cup {index} |-> IF i = index THEN new ELSE st[i]]

\* No router is in use.
InitRouterIdle ==
    /\ rworkers = <<>>
    /\ eps = "zero"
    /\ stats = <<>>
    /\ decision = None

\* BanditRouter::from_env() and a slice of workers: empty statistics, eps as
\* ORCH_ROUTER_EPS sets it.
InitRouter ==
    /\ rworkers \in WorkerSlices
    /\ eps \in {"zero", "some", "one"}
    /\ stats = <<>>
    /\ decision = None

\* run_one, line 236: the router is asked for a worker.
Choose ==
    /\ decision = None
    /\ \E task \in RoutedTasks : \E d \in choose(task, rworkers) :
          decision' = Some([task |-> task, index |-> d.index, reason |-> d.reason])
    /\ UNCHANGED <<rworkers, eps, stats, qcVars, conc, busVars, pipeVars, queueVars, memVars, runVars>>

\* The outcomes the router was told of, all workers together.
Observed == LET RECURSIVE Sum(_)
                Sum(i) == IF i < 0 THEN 0 ELSE Sum(i - 1) + (IF i \in DOMAIN stats THEN stats[i][1] ELSE 0)
            IN Sum(Len(rworkers) - 1)

\* run_one, lines 238-255: the chosen worker exists and returned Ok; its
\* outcome (result.success, true when absent) is recorded.
Observe ==
    /\ decision # None
    /\ decision[1].index < Len(rworkers)
    /\ Observed < MaxObserved
    /\ \E success \in BOOLEAN : stats' = observe(stats, decision[1].index, success)
    /\ decision' = None
    /\ UNCHANGED <<rworkers, eps, qcVars, conc, busVars, pipeVars, queueVars, memVars, runVars>>

\* run_one, lines 238-239: no worker at the chosen index, or the worker
\* returned Err: run_one returns before the outcome is recorded.
NotObserved ==
    /\ decision # None
    /\ decision' = None
    /\ UNCHANGED <<rworkers, eps, stats, qcVars, conc, busVars, pipeVars, queueVars, memVars, runVars>>

\* ------------------------------------------------------------------ events.rs

\* InProcEventBus::new(): no subscriber, nothing published.
InitBusIdle ==
    /\ senders = <<>>
    /\ chan = <<>>
    /\ alive = {}
    /\ recvd = <<>>
    /\ sentAt = <<>>
    /\ published = 0
    /\ publishing = 0

\* subscribe: a channel is made, its Sender pushed under the lock, its
\* Receiver returned. The k-th subscriber is k.
Subscribe ==
    /\ Len(senders) < MaxSubscribers
    /\ publishing = 0
    /\ senders' = Append(senders, Len(senders) + 1)
    /\ chan' = Append(chan, <<>>)
    /\ recvd' = Append(recvd, <<>>)
    /\ sentAt' = Append(sentAt, published)
    /\ alive' = alive \cup {Len(senders) + 1}
    /\ UNCHANGED <<published, publishing, qcVars, conc, routerVars, pipeVars, queueVars, memVars, runVars>>

\* publish, line 61: the lock is taken.
PublishLock ==
    /\ published < MaxPublished
    /\ publishing = 0
    /\ published' = published + 1
    /\ publishing' = 1
    /\ UNCHANGED <<senders, chan, alive, recvd, sentAt, qcVars, conc, routerVars, pipeVars, queueVars, memVars, runVars>>

\* `let _ = sub.send(..)` with the loop left at the first send that fails.
AfterSendStopOnErr(i, sent) == IF sent THEN i + 1 ELSE Len(senders) + 1

\* `let _ = sub.send(..)`: the loop goes on to the next sender whether the
\* send succeeded or not.
AfterSend(i, sent) == i + 1

\* publish, lines 62-64: one send of the loop; a send to a dropped Receiver
\* returns Err. After the last sender the guard is dropped.
PublishSend ==
    /\ publishing # 0
    /\ IF publishing > Len(senders)
       THEN /\ publishing' = 0
            /\ UNCHANGED chan
       ELSE LET sub == senders[publishing]
                sent == sub \in alive
            IN /\ chan' = IF sent THEN [chan EXCEPT ![sub] = Append(@, published)] ELSE chan
               /\ publishing' = AfterSend(publishing, sent)
    /\ UNCHANGED <<senders, alive, recvd, sentAt, published, qcVars, conc, routerVars, pipeVars, queueVars, memVars, runVars>>

\* Receiver::try_recv on a channel that holds an event.
Recv ==
    \E sub \in alive :
        /\ chan[sub] # <<>>
        /\ recvd' = [recvd EXCEPT ![sub] = Append(@, Head(chan[sub]))]
        /\ chan' = [chan EXCEPT ![sub] = Tail(@)]
        /\ UNCHANGED <<senders, alive, sentAt, published, publishing, qcVars, conc, routerVars, pipeVars,
                       queueVars, memVars, runVars>>

\* A subscriber drops its Receiver: what its channel holds is dropped with it.
DropReceiver ==
    \E sub \in alive :
        /\ alive' = alive \ {sub}
        /\ chan' = [chan EXCEPT ![sub] = <<>>]
        /\ UNCHANGED <<senders, recvd, sentAt, published, publishing, qcVars, conc, routerVars, pipeVars,
                       queueVars, memVars, runVars>>


\* ------------------------------------------------------------------ run_one, call by call

\* The mutexes of the core: the workers list (lib.rs:102), the memory
\* service (memory.rs:35), the router's statistics (router.rs:9), the event
\* bus's subscriber list (events.rs:44).
Mutexes == {"workers", "memory", "stats", "bus"}

\* What a thread has done in its run_one.
Fresh == [pc |-> "idle", idx |-> 0, res |-> "none", success |-> "unread", did |-> {}]

\* No thread is in run_one or in publish; every mutex is free.
InitRunIdle ==
    /\ runner = [th \in 1..MaxThreads |-> Fresh]
    /\ locks = [m \in Mutexes |-> 0]
    /\ pubs = [th \in 1..MaxThreads |-> [pos |-> 0, event |-> 0]]

\* Mutex::lock returns when the mutex is free.
Free(m) == locks[m] = 0

Lock(m, th) == [locks EXCEPT ![m] = th]

\* The guard is dropped.
Unlock(m) == [locks EXCEPT ![m] = 0]

\* What run_one leaves alone.
runOther == <<rworkers, eps, decision, qcVars, conc, busVars, pipeVars, queueVars, memVars>>

\* Lines 226-230: the token is read and the first event published; publish
\* takes the bus's lock (events.rs:61).
Enter ==
    \E th \in 1..MaxThreads, cancelled \in BOOLEAN :
        /\ runner[th].pc = "idle"
        /\ Free("bus")
        /\ locks' = Lock("bus", th)
        /\ runner' = [runner EXCEPT ![th].pc = IF cancelled THEN "warn" ELSE "start"]
        /\ UNCHANGED <<stats, pubs, runOther>>

\* publish, events.rs:62-65: the sends, and the guard dropped. After the
\* Warn event run_one returns Ok; after task:start it goes on to the hook;
\* after task:done to the metric.
Published ==
    \E th \in 1..MaxThreads :
        /\ runner[th].pc \in {"warn", "start", "done"}
        /\ locks' = Unlock("bus")
        /\ runner' = [runner EXCEPT ![th].pc = CASE runner[th].pc = "warn" -> "returned"
                                                [] runner[th].pc = "start" -> "before"
                                                [] OTHER -> "metric",
                                     ![th].did = @ \cup {runner[th].pc}]
        /\ UNCHANGED <<stats, pubs, runOther>>

\* Line 231: policy.before_task returns Ok, or Err and run_one returns it.
BeforeTask ==
    \E th \in 1..MaxThreads, ok \in BOOLEAN :
        /\ runner[th].pc = "before"
        /\ runner' = [runner EXCEPT ![th].pc = IF ok THEN "workers" ELSE "failed"]
        /\ UNCHANGED <<stats, locks, pubs, runOther>>

\* Line 235: self.workers.lock().
LockWorkers ==
    \E th \in 1..MaxThreads :
        /\ runner[th].pc = "workers"
        /\ Free("workers")
        /\ locks' = Lock("workers", th)
        /\ runner' = [runner EXCEPT ![th].pc = "choose"]
        /\ UNCHANGED <<stats, pubs, runOther>>

\* A choose that returns from the exploit branch with the guard of the
\* statistics not dropped.
StatsGuardKept(th) == locks

\* router.rs:43-44: choose returns and its guard `stats` goes out of scope.
StatsGuardDropped(th) == Unlock("stats")

\* Lines 238-239 once the router has decided: get_mut finds the worker and
\* its run is called, or finds none: the guard of the workers is dropped
\* and run_one returns Internal("no worker").
Routed(th, index, held) ==
    /\ runner' = [runner EXCEPT ![th].idx = index,
                                 ![th].pc = IF index < Len(rworkers) THEN "run" ELSE "failed"]
    /\ locks' = IF index < Len(rworkers) THEN held ELSE [held EXCEPT !["workers"] = 0]

\* Line 236, router.rs:19-34: choose returns an explicit route, a capable
\* worker or an explored index; none of these reads the statistics. The
\* task run_one was called with is drawn here, where it is read.
ChooseDirect ==
    \E th \in 1..MaxThreads, task \in RoutedTasks :
        /\ runner[th].pc = "choose"
        /\ \E d \in choose(task, rworkers) :
              /\ d.reason # "exploit"
              /\ Routed(th, d.index, locks)
        /\ UNCHANGED <<stats, pubs, runOther>>

\* router.rs:36: choose reaches the exploit branch and locks the statistics.
ExploitLock ==
    \E th \in 1..MaxThreads, task \in RoutedTasks :
        /\ runner[th].pc = "choose"
        /\ \E d \in choose(task, rworkers) : d.reason = "exploit"
        /\ Free("stats")
        /\ locks' = Lock("stats", th)
        /\ runner' = [runner EXCEPT ![th].pc = "exploit"]
        /\ UNCHANGED <<stats, pubs, runOther>>

\* router.rs:37-44: the best rate under the lock, and the decision returned.
Exploited ==
    \E th \in 1..MaxThreads, task \in RoutedTasks :
        /\ runner[th].pc = "exploit"
        /\ \E d \in choose(task, rworkers) :
              /\ d.reason = "exploit"
              /\ Routed(th, d.index, StatsGuardDropped(th))
        /\ UNCHANGED <<stats, pubs, runOther>>

\* A run_one that goes on to the merge when the worker's run failed.
OnRunErrGoOn == "merge"

\* Line 239, `w.run(task.clone())?`: the Err is returned at once.
OnRunErr == "failed"

\* Lines 239-240: the worker's run returns Ok or Err; the block ends and the
\* guard of the workers is dropped.
WorkerRun ==
    \E th \in 1..MaxThreads, res \in {"ok", "err"} :
        /\ runner[th].pc = "run"
        /\ runner' = [runner EXCEPT ![th].res = res, ![th].pc = IF res = "err" THEN OnRunErr ELSE "merge"]
        /\ locks' = Unlock("workers")
        /\ UNCHANGED <<stats, pubs, runOther>>

\* Line 245, memory.rs:70: merge locks the memory service.
MergeLock ==
    \E th \in 1..MaxThreads :
        /\ runner[th].pc = "merge"
        /\ Free("memory")
        /\ locks' = Lock("memory", th)
        /\ runner' = [runner EXCEPT ![th].pc = "merging"]
        /\ UNCHANGED <<stats, pubs, runOther>>

\* memory.rs:71-85: the delta merged, the snapshot returned, the guard dropped.
Merged ==
    \E th \in 1..MaxThreads :
        /\ runner[th].pc = "merging"
        /\ locks' = Unlock("memory")
        /\ runner' = [runner EXCEPT ![th].pc = "persist", ![th].did = @ \cup {"merge"}]
        /\ UNCHANGED <<stats, pubs, runOther>>

\* Lines 247-249: the snapshot written to the project's files.
Persist ==
    \E th \in 1..MaxThreads :
        /\ runner[th].pc = "persist"
        /\ runner' = [runner EXCEPT ![th].pc = "after", ![th].did = @ \cup {"persist"}]
        /\ UNCHANGED <<stats, locks, pubs, runOther>>

\* Line 250: policy.after_task returns Ok, or Err and run_one returns it.
AfterTask ==
    \E th \in 1..MaxThreads, ok \in BOOLEAN :
        /\ runner[th].pc = "after"
        /\ runner' = [runner EXCEPT ![th].pc = IF ok THEN "publish" ELSE "failed", ![th].did = @ \cup {"after_task"}]
        /\ UNCHANGED <<stats, locks, pubs, runOther>>

\* Line 251: publish of task:done takes the bus's lock.
DoneLock ==
    \E th \in 1..MaxThreads :
        /\ runner[th].pc = "publish"
        /\ Free("bus")
        /\ locks' = Lock("bus", th)
        /\ runner' = [runner EXCEPT ![th].pc = "done"]
        /\ UNCHANGED <<stats, pubs, runOther>>

\* Line 252: metrics.inc("tasks_completed").
MetricInc ==
    \E th \in 1..MaxThreads :
        /\ runner[th].pc = "metric"
        /\ runner' = [runner EXCEPT ![th].pc = "observe", ![th].did = @ \cup {"metric"}]
        /\ UNCHANGED <<stats, locks, pubs, runOther>>

\* Lines 254-255, router.rs:47: observe locks the statistics.
ObserveLock ==
    \E th \in 1..MaxThreads :
        /\ runner[th].pc = "observe"
        /\ Free("stats")
        /\ locks' = Lock("stats", th)
        /\ runner' = [runner EXCEPT ![th].pc = "observing"]
        /\ UNCHANGED <<stats, pubs, runOther>>

\* router.rs:48-50: the entry of the chosen index updated, the guard
\* dropped; run_one returns Ok. The outcome is what line 254 read in the
\* worker's result: its `success`, true when absent or not a boolean; it is
\* drawn here, where it is used.
ObserveDone ==
    \E th \in 1..MaxThreads, success \in BOOLEAN :
        /\ runner[th].pc = "observing"
        /\ stats' = observe(stats, runner[th].idx, success)
        /\ locks' = Unlock("stats")
        /\ runner' = [runner EXCEPT ![th].pc = "returned", ![th].did = @ \cup {"observe"},
                                     ![th].success = IF success THEN "true" ELSE "false"]
        /\ UNCHANGED <<pubs, runOther>>


\* Nothing but the orchestrator, the queue and the memory service is in use.
InitRestIdle == InitQcIdle /\ InitConcIdle /\ InitRouterIdle /\ InitBusIdle /\ InitRunIdle

\* ------------------------------------------------------------------ pipeline

NoError == [tag |-> "none", err |-> "", msg |-> ""]

Ok == [tag |-> "Ok", err |-> "", msg |-> ""]

Err(err, msg) == [tag |-> "Err", err |-> err, msg |-> msg]

\* The errors a worker's run fails with.
WorkerErrors == {Err("ExecutionFailed", "boom"), Err("Unsupported", "task")}

\* No hook and no worker has returned Err.
NothingRaised == [by |-> "none", id |-> 0, err |-> ""]

\* Positions of a run_one between its first event and its return.
Running == {"before", "worker", "merge", "after", "done"}

InRunOne == {id \in DOMAIN tpc : tpc[id] \in Running}

\* A token that never reports the cancellation.
is_canceled_never == FALSE

\* CancelToken::is_canceled
is_canceled == canceled

\* A scheduler that hands the next task to a runner without waiting.
RunOneNotAwaited == TRUE

\* InProcessScheduler::run calls run_one and waits for it to return before
\* the loop takes the next task.
RunOneReturned == InRunOne = {}

InitPipeline(books, kinds, workerKinds) ==
    /\ playbook \in books
    /\ max_concurrency \in 1..MaxConcurrency
    /\ optimizer \in kinds
    /\ workers \in workerKinds
    /\ canceled = FALSE
    /\ canceledAt = "never"
    /\ raised = NothingRaised
    /\ pc = "idle"
    /\ optFailed = FALSE
    /\ delta = <<>>
    /\ ordered = <<>>
    /\ rest = <<>>
    /\ tpc = [id \in IdsOf(playbook) |-> "pending"]
    /\ result = [id \in IdsOf(playbook) |-> JNull]
    /\ events = <<>>
    /\ calls = <<>>
    /\ memory = JNull
    /\ disk = JNull
    /\ ret = NoError

\* InMemoryTaskQueue::default(): an empty queue.
InitQueueIdle ==
    /\ queue = <<>>
    /\ pushed = 0
    /\ popped = <<>>
    /\ lastOp = [op |-> "new", w |-> 0, ret |-> None, flag |-> FALSE]
    /\ inFlight = {}

\* CancelSource::cancel, from any thread at any time.
Cancel ==
    /\ pc # "returned"
    /\ ~canceled
    /\ canceled' = TRUE
    /\ canceledAt' = pc
    /\ UNCHANGED <<playbook, workers, raised, max_concurrency, pc, optimizer, optFailed, delta, ordered,
                   rest, tpc, result, events, calls, memory, disk, ret, queueVars, memVars, auxVars>>

\* execute_with_delegation, lines 178-202: the first event, the instance, the
\* optimiser's answer or the identity order when it fails.
Begin ==
    /\ pc = "idle"
    /\ \E r \in Optimize(optimizer, InstanceOf(playbook, max_concurrency)) :
          /\ optFailed' = (r = None)
          /\ delta' = IF r = None THEN InstOrder(InstanceOf(playbook, max_concurrency)) ELSE r[1]
    /\ events' = Publish(events, Ev("Info", "starting playbook", None, None))
    /\ pc' = "compare"
    /\ UNCHANGED <<playbook, workers, canceledAt, raised, max_concurrency, canceled, optimizer, ordered, rest, tpc,
                   result, calls, memory, disk, ret, queueVars, memVars, auxVars>>

AbMessage(winner) ==
    CASE winner = "qc" -> "qc_ab:winner=qc"
      [] winner = "classical" -> "qc_ab:winner=classical"
      [] OTHER -> "qc_ab:winner=tie"

\* Lines 204-206: the A/B comparison, which calls both optimisers again, and
\* its event.
Compare ==
    /\ pc = "compare"
    /\ LET inst == InstanceOf(playbook, max_concurrency)
       IN \E ab \in compare(topo_sort_with_priority(inst), Optimize(optimizer, inst), inst) :
             events' = Publish(events, Ev("Info", AbMessage(ab.winner), None, None))
    /\ pc' = "reorder"
    /\ UNCHANGED <<playbook, workers, canceledAt, raised, max_concurrency, canceled, optimizer, optFailed, delta, ordered,
                   rest, tpc, result, calls, memory, disk, ret, queueVars, memVars, auxVars>>

\* Lines 208-211.
Reorder ==
    /\ pc = "reorder"
    /\ ordered' \in Reordered(playbook, delta)
    /\ pc' = "topo"
    /\ UNCHANGED <<playbook, workers, canceledAt, raised, max_concurrency, canceled, optimizer, optFailed, delta, rest,
                   tpc, result, events, calls, memory, disk, ret, queueVars, memVars, auxVars>>

\* Lines 273-277: the reconciliation, the target concurrency and its event;
\* the scheduler is handed the list.
Reconcile ==
    /\ pc = "topo"
    /\ ordered' \in topo_order_with_hint(TasksIn(playbook, ordered))
    /\ \E env_cap \in EnvCaps, cpus \in 1..MaxCpus :
          events' = Publish(events, Ev("Info", "scheduler_target_concurrency",
                                       Some(compute_concurrency(max_concurrency, Len(ordered), env_cap, cpus)), None))
    /\ rest' = ordered'
    /\ pc' = "schedule"
    /\ UNCHANGED <<playbook, workers, canceledAt, raised, max_concurrency, canceled, optimizer, optFailed, delta, tpc,
                   result, calls, memory, disk, ret, queueVars, memVars, auxVars>>

\* A scheduler that drops the Err of run_one and goes on with the next task.
AbortSwallowed(id, e) ==
    /\ tpc' = [tpc EXCEPT ![id] = "failed"]
    /\ ret' = ret
    /\ pc' = pc

\* run_one returned Err: InProcessScheduler::run and execute_with_delegation
\* return it (the two `?`).
Abort(id, e) ==
    /\ tpc' = [tpc EXCEPT ![id] = "failed"]
    /\ ret' = e
    /\ pc' = "returned"

\* The scheduler's loop takes the next task and calls run_one, which finds the
\* token cancelled: one Warn event, Ok.
RunOneCanceled ==
    /\ pc = "schedule" /\ rest # <<>> /\ RunOneReturned
    /\ is_canceled
    /\ events' = Publish(events, Ev("Warn", "canceled", None, None))
    /\ tpc' = [tpc EXCEPT ![Head(rest)] = "skipped"]
    /\ rest' = Tail(rest)
    /\ UNCHANGED <<playbook, workers, canceledAt, raised, max_concurrency, canceled, pc, optimizer, optFailed, delta,
                   ordered, result, calls, memory, disk, ret, queueVars, memVars, auxVars>>

\* The scheduler's loop takes the next task and calls run_one: task:start.
RunOneStart ==
    /\ pc = "schedule" /\ rest # <<>> /\ RunOneReturned
    /\ ~is_canceled
    /\ events' = Publish(events, Ev("Progress", "task:start", Some(Head(rest)), Some(Head(rest))))
    /\ tpc' = [tpc EXCEPT ![Head(rest)] = "before"]
    /\ rest' = Tail(rest)
    /\ UNCHANGED <<playbook, workers, canceledAt, raised, max_concurrency, canceled, pc, optimizer, optFailed, delta,
                   ordered, result, calls, memory, disk, ret, queueVars, memVars, auxVars>>

\* A before_task hook that publishes the event of the after_task hook.
BeforeTaskPublishesAfter ==
    \E id \in IdsOf(playbook) :
        /\ pc = "schedule" /\ tpc[id] = "before"
        /\ calls' = Append(calls, <<"before_task", id>>)
        /\ events' = Publish(events, Ev("Info", "policy:after", Some(id), None))
        /\ tpc' = [tpc EXCEPT ![id] = "worker"]
        /\ UNCHANGED <<playbook, workers, canceledAt, raised, max_concurrency, canceled, pc, optimizer, optFailed, delta,
                       ordered, rest, result, memory, disk, ret, queueVars, memVars, auxVars>>

\* policy.before_task: the NoopExecutionPolicy publishes policy:before and
\* succeeds.
BeforeTaskOk ==
    \E id \in IdsOf(playbook) :
        /\ pc = "schedule" /\ tpc[id] = "before"
        /\ calls' = Append(calls, <<"before_task", id>>)
        /\ events' = Publish(events, Ev("Info", "policy:before", Some(id), None))
        /\ tpc' = [tpc EXCEPT ![id] = "worker"]
        /\ UNCHANGED <<playbook, workers, canceledAt, raised, max_concurrency, canceled, pc, optimizer, optFailed, delta,
                       ordered, rest, result, memory, disk, ret, queueVars, memVars, auxVars>>

\* policy.before_task of a policy that refuses the task with Err(msg):
\* map_err turns it into Internal(msg).
BeforeTaskErr ==
    \E id \in IdsOf(playbook) :
        /\ pc = "schedule" /\ tpc[id] = "before"
        /\ calls' = Append(calls, <<"before_task", id>>)
        /\ \E msg \in HookMessages :
              /\ raised' = [by |-> "before_task", id |-> id, err |-> msg]
              /\ Abort(id, Err("Internal", msg))
        /\ UNCHANGED <<playbook, workers, canceledAt, max_concurrency, canceled, optimizer, optFailed, delta,
                       ordered, rest, result, events, memory, disk, queueVars, memVars, auxVars>>

\* Lines 234-240: the worker the router chose runs the task and returns Ok.
WorkerOk ==
    \E id \in IdsOf(playbook) :
        /\ pc = "schedule" /\ tpc[id] = "worker"
        /\ calls' = Append(calls, <<"run", id>>)
        /\ \E r \in WorkerResults(id) : result' = [result EXCEPT ![id] = r]
        /\ tpc' = [tpc EXCEPT ![id] = "merge"]
        /\ UNCHANGED <<playbook, workers, canceledAt, raised, max_concurrency, canceled, pc, optimizer, optFailed, delta,
                       ordered, rest, events, memory, disk, ret, queueVars, memVars, auxVars>>

\* The worker's run returns Err: run_one returns it unchanged.
WorkerErr ==
    \E id \in IdsOf(playbook) :
        /\ pc = "schedule" /\ tpc[id] = "worker"
        /\ calls' = Append(calls, <<"run", id>>)
        /\ \E e \in WorkerErrors :
              /\ raised' = [by |-> "run", id |-> id, err |-> e]
              /\ Abort(id, e)
        /\ UNCHANGED <<playbook, workers, canceledAt, max_concurrency, canceled, optimizer, optFailed, delta,
                       ordered, rest, result, events, memory, disk, queueVars, memVars, auxVars>>

\* Lines 242-243: {"last_result": result}, merged with result.memory_update.
StatePatch(r) ==
    LET base == JObj("last_result" :> r)
    IN IF HasKey(r, "memory_update") THEN merge_json_values(base, r.v["memory_update"]) ELSE base

\* A run_one that merges into memory and writes nothing to disk.
MergeNotPersisted ==
    \E id \in IdsOf(playbook) :
        /\ pc = "schedule" /\ tpc[id] = "merge"
        /\ memory' = MemoryMerge(memory, StatePatch(result[id]))
        /\ tpc' = [tpc EXCEPT ![id] = "after"]
        /\ UNCHANGED <<playbook, workers, canceledAt, raised, max_concurrency, canceled, pc, optimizer,
                       optFailed, delta, ordered, rest, result, events, calls, disk, ret, queueVars, memVars, auxVars>>

\* Lines 244-249: the merge into memory and the snapshot written to disk.
MergePersist ==
    \E id \in IdsOf(playbook) :
        /\ pc = "schedule" /\ tpc[id] = "merge"
        /\ memory' = MemoryMerge(memory, StatePatch(result[id]))
        /\ disk' = memory'
        /\ tpc' = [tpc EXCEPT ![id] = "after"]
        /\ UNCHANGED <<playbook, workers, canceledAt, raised, max_concurrency, canceled, pc, optimizer, optFailed, delta,
                       ordered, rest, result, events, calls, ret, queueVars, memVars, auxVars>>

\* policy.after_task of the NoopExecutionPolicy.
AfterTaskOk ==
    \E id \in IdsOf(playbook) :
        /\ pc = "schedule" /\ tpc[id] = "after"
        /\ calls' = Append(calls, <<"after_task", id>>)
        /\ events' = Publish(events, Ev("Info", "policy:after", Some(id), None))
        /\ tpc' = [tpc EXCEPT ![id] = "done"]
        /\ UNCHANGED <<playbook, workers, canceledAt, raised, max_concurrency, canceled, pc, optimizer, optFailed, delta,
                       ordered, rest, result, memory, disk, ret, queueVars, memVars, auxVars>>

\* policy.after_task fails: Internal(msg).
AfterTaskErr ==
    \E id \in IdsOf(playbook) :
        /\ pc = "schedule" /\ tpc[id] = "after"
        /\ calls' = Append(calls, <<"after_task", id>>)
        /\ \E msg \in HookMessages :
              /\ raised' = [by |-> "after_task", id |-> id, err |-> msg]
              /\ Abort(id, Err("Internal", msg))
        /\ UNCHANGED <<playbook, workers, canceledAt, max_concurrency, canceled, optimizer, optFailed, delta,
                       ordered, rest, result, events, memory, disk, queueVars, memVars, auxVars>>

\* Lines 251-256: task:done, and run_one returns Ok.
TaskDone ==
    \E id \in IdsOf(playbook) :
        /\ pc = "schedule" /\ tpc[id] = "done"
        /\ events' = Publish(events, Ev("Progress", "task:done", None, Some(id)))
        /\ tpc' = [tpc EXCEPT ![id] = "returned"]
        /\ UNCHANGED <<playbook, workers, canceledAt, raised, max_concurrency, canceled, pc, optimizer, optFailed, delta,
                       ordered, rest, result, calls, memory, disk, ret, queueVars, memVars, auxVars>>

\* Lines 278-284: the scheduler returned Ok; the final snapshot, playbook:done.
Finish ==
    /\ pc = "schedule" /\ rest = <<>> /\ RunOneReturned
    /\ disk' = memory
    /\ events' = Publish(events, Ev("Info", "playbook:done", None, None))
    /\ ret' = Ok
    /\ pc' = "returned"
    /\ UNCHANGED <<playbook, workers, canceledAt, raised, max_concurrency, canceled, optimizer, optFailed, delta,
                   ordered, rest, tpc, result, calls, memory, queueVars, memVars, auxVars>>

Plan == Begin \/ Compare \/ Reorder \/ Reconcile

RunOk == RunOneStart \/ BeforeTaskOk \/ WorkerOk \/ MergePersist \/ AfterTaskOk \/ TaskDone \/ Finish

RunErr == BeforeTaskErr \/ WorkerErr \/ AfterTaskErr

Next == Plan \/ RunOk \/ RunErr \/ Cancel \/ RunOneCanceled

\* The pipeline on playbooks without depends_on, with the default optimiser
\* or one that fails; hooks and workers may fail, the run may be cancelled.
Init == InitPipeline(Playbooks(FALSE, {"true", "absent"}), {"classical", "failing"}, {"plain"}) /\ InitQueueIdle /\ InitMemoryIdle /\ InitAssocIdle /\ InitRestIdle

Spec == Init /\ [][Next]_vars

\* The pipeline on playbooks with depends_on, with any optimiser, run without
\* cancellation and without errors.
NextOrder == Plan \/ RunOk

InitOrder == InitPipeline(Playbooks(TRUE, {"absent"}), {"reverse", "any"}, {"plain"}) /\ InitQueueIdle /\ InitMemoryIdle /\ InitAssocIdle /\ InitRestIdle

SpecOrder == InitOrder /\ [][NextOrder]_vars

\* ------------------------------------------------------------------ queue.rs

RemoveAt(q, i) == SubSeq(q, 1, i - 1) \o SubSeq(q, i + 1, Len(q))

\* A loop that passes over every task that needs the write lock.
SkippedWhateverInFlight(t, writes_in_flight) == NeedsWriteLock(t)

\* A loop that passes over no task.
SkippedNever(t, writes_in_flight) == FALSE

\* The loop of InMemoryTaskQueue::pop_eligible: a task that needs the write
\* lock is passed over while writes_in_flight > 0.
Skipped(t, writes_in_flight) == NeedsWriteLock(t) /\ writes_in_flight > 0

\* InMemoryTaskQueue::pop_eligible: the queue it leaves, the task it returns
\* (None or Some) and the flag returned with it.
pop_eligible(q, writes_in_flight) ==
    LET eligible == {i \in 1..Len(q) : ~Skipped(q[i], writes_in_flight)}
    IN IF eligible = {}
       THEN [queue |-> q, ret |-> None, flag |-> FALSE]
       ELSE LET pick == CHOOSE i \in eligible : \A j \in eligible : i <= j
            IN [queue |-> RemoveAt(q, pick), ret |-> Some(q[pick]), flag |-> NeedsWriteLock(q[pick])]

\* A queue that takes a batch at its front.
push_all_front(q, tasks) == tasks \o q

\* guard.push_back(t) for each task of the batch.
push_all(q, tasks) == q \o tasks

\* InMemoryTaskQueue::pop: guard.pop_front().
pop(q) == IF q = <<>> THEN [queue |-> q, ret |-> None] ELSE [queue |-> Tail(q), ret |-> Some(Head(q))]

\* TaskQueue::pop_eligible as the trait provides it (lines 12-24): the task
\* is taken with `self.pop()?` before needs_write_lock is looked at, and
\* None is returned for a task that needs the lock while writes_in_flight > 0.
default_pop_eligible(q, writes_in_flight) ==
    LET taken == pop(q)
    IN IF taken.ret = None
       THEN [queue |-> q, ret |-> None, flag |-> FALSE]
       ELSE IF NeedsWriteLock(taken.ret[1]) /\ writes_in_flight > 0
            THEN [queue |-> taken.queue, ret |-> None, flag |-> FALSE]
            ELSE [queue |-> taken.queue, ret |-> taken.ret, flag |-> NeedsWriteLock(taken.ret[1])]

\* A batch of tasks to push: the k-th task pushed on the queue gets id k.
Batches == {[i \in 1..Len(n) |-> Task(pushed + i, n[i], {})] :
               n \in SeqsUpTo(NeedsValues, MaxPushed - pushed) \ {<<>>}}

PushAll ==
    /\ pushed < MaxPushed
    /\ \E tasks \in Batches :
          /\ queue' = push_all(queue, tasks)
          /\ pushed' = pushed + Len(tasks)
    /\ lastOp' = [op |-> "push_all", w |-> 0, ret |-> None, flag |-> FALSE]
    /\ UNCHANGED <<popped, inFlight, pipeVars, memVars, auxVars>>

Pop ==
    /\ queue' = pop(queue).queue
    /\ popped' = popped \o pop(queue).ret
    /\ lastOp' = [op |-> "pop", w |-> 0, ret |-> pop(queue).ret, flag |-> FALSE]
    /\ UNCHANGED <<pushed, inFlight, pipeVars, memVars, auxVars>>

PopEligible ==
    \E w \in 0..MaxWritesInFlight :
        LET r == pop_eligible(queue, w)
        IN /\ queue' = r.queue
           /\ popped' = popped \o r.ret
           /\ lastOp' = [op |-> "pop_eligible", w |-> w, ret |-> r.ret, flag |-> r.flag]
           /\ UNCHANGED <<pushed, inFlight, pipeVars, memVars, auxVars>>

\* pop_eligible called on a queue that does not override the trait's method.
PopEligibleDefault ==
    \E w \in 0..MaxWritesInFlight :
        LET r == default_pop_eligible(queue, w)
        IN /\ queue' = r.queue
           /\ popped' = popped \o r.ret
           /\ lastOp' = [op |-> "pop_eligible", w |-> w, ret |-> r.ret, flag |-> r.flag]
           /\ UNCHANGED <<pushed, inFlight, pipeVars, memVars, auxVars>>

NextQueue == PushAll \/ Pop \/ PopEligible

\* The pipeline's variables, at rest while a queue is exercised on its own.
InitPipelineIdle == InitPipeline({<<>>}, {"classical"}, {"plain"})

InitQueue == InitPipelineIdle /\ InitQueueIdle /\ InitMemoryIdle /\ InitAssocIdle /\ InitRestIdle

SpecQueue == InitQueue /\ [][NextQueue]_vars

\* A TaskQueue with the push_all and pop of InMemoryTaskQueue and the
\* pop_eligible of the trait.
NextDefaultQueue == PushAll \/ Pop \/ PopEligibleDefault

SpecDefaultQueue == InitQueue /\ [][NextDefaultQueue]_vars

\* The number of admitted and not yet finished tasks that need the write lock.
WritesInFlight == Cardinality({t \in inFlight : NeedsWriteLock(t)})

\* A runner admits the next task through pop_eligible(writes in flight).
Admit ==
    LET r == pop_eligible(queue, WritesInFlight)
    IN /\ r.ret # None
       /\ queue' = r.queue
       /\ popped' = popped \o r.ret
       /\ lastOp' = [op |-> "pop_eligible", w |-> WritesInFlight, ret |-> r.ret, flag |-> r.flag]
       /\ inFlight' = inFlight \cup {r.ret[1]}
       /\ UNCHANGED <<pushed, pipeVars, memVars, auxVars>>

\* An admitted task finishes.
Complete ==
    \E t \in inFlight :
        /\ inFlight' = inFlight \ {t}
        /\ UNCHANGED <<queue, pushed, popped, lastOp, pipeVars, memVars, auxVars>>

NextAdmit == PushAll \/ Admit \/ Complete

SpecAdmit == InitQueue /\ [][NextAdmit]_vars


\* ------------------------------------------------------------------ memory service

\* Threads calling merge, load and save on one InMemoryMemoryService.
NextMemory == MergeState \/ MergeTodo \/ Load \/ Save

InitMemory == InitPipelineIdle /\ InitQueueIdle /\ InitMemoryIdle /\ InitAssocIdle /\ InitRestIdle

SpecMemory == InitMemory /\ [][NextMemory]_vars

\* merge_json on three trees.
InitTrees == InitPipelineIdle /\ InitQueueIdle /\ InitMemoryIdle /\ InitAssoc /\ InitRestIdle

SpecAssoc == InitTrees /\ [][ApplyMerges]_vars

\* The pipeline with workers whose results hold a memory_update, run without
\* cancellation and without errors.
InitMerge == InitPipeline(Playbooks(FALSE, {"absent"}), {"classical"}, {"updating"}) /\ InitQueueIdle /\ InitMemoryIdle /\ InitAssocIdle /\ InitRestIdle

SpecMerge == InitMerge /\ [][NextOrder]_vars


\* ------------------------------------------------------------------ optimiser, comparator

\* The rest of the crate idle.
InitCoreIdle == InitPipelineIdle /\ InitQueueIdle /\ InitMemoryIdle /\ InitAssocIdle

\* ClassicalOptimizer.optimize on instances without write tasks, the task
\* list in ascending or descending order of the ids.
InitClassical ==
    /\ InitCoreIdle /\ InitConcIdle /\ InitRouterIdle /\ InitBusIdle /\ InitRunIdle
    /\ DrawInstance(TRUE, MaxQuboEdges, {FALSE}, {1})
    /\ qout = [op |-> "none"]

SpecClassical == InitClassical /\ [][ClassicalOptimize]_vars

\* The classical optimiser on instances whose depends_on entries name tasks
\* of the instance, the task itself, or an id that no task carries.
InitAnyDeps ==
    /\ InitCoreIdle /\ InitConcIdle /\ InitRouterIdle /\ InitBusIdle /\ InitRunIdle
    /\ DrawInstanceOver(FALSE, MaxQuboEdges, {FALSE}, {1}, {0, 5}, {NoTaskId})
    /\ qout = [op |-> "none"]

SpecAnyDeps == InitAnyDeps /\ [][ClassicalOptimize]_vars

\* compare on instances with write tasks, a capacity and at most one
\* depends_on entry, the task list in ascending order of the ids.
InitAb ==
    /\ InitCoreIdle /\ InitConcIdle /\ InitRouterIdle /\ InitBusIdle /\ InitRunIdle
    /\ DrawInstance(FALSE, 1, BOOLEAN, 1..MaxCapacity)
    /\ qout = [op |-> "none"]

SpecAb == InitAb /\ [][CompareAb]_vars

\* ------------------------------------------------------------------ target concurrency

InitConcurrency == InitCoreIdle /\ InitQcIdle /\ InitConc /\ InitRouterIdle /\ InitBusIdle /\ InitRunIdle

SpecConcurrency == InitConcurrency /\ [][ComputeConcurrency]_vars

\* ------------------------------------------------------------------ router

NextRouter == Choose \/ Observe \/ NotObserved

InitRouting == InitCoreIdle /\ InitQcIdle /\ InitConcIdle /\ InitRouter /\ InitBusIdle /\ InitRunIdle

SpecRouter == InitRouting /\ [][NextRouter]_vars

\* ------------------------------------------------------------------ event bus

NextBus == Subscribe \/ PublishLock \/ PublishSend \/ Recv \/ DropReceiver

InitBus == InitCoreIdle /\ InitQcIdle /\ InitConcIdle /\ InitRouterIdle /\ InitBusIdle /\ InitRunIdle

SpecBus == InitBus /\ [][NextBus]_vars

\* ------------------------------------------------------------------ publishers on threads

\* publish without its lock: the subscriber list is read unguarded.
BusGuardNone(th) == locks

\* publish, events.rs:61: `let guard = self.inner.lock()`.
BusGuard(th) == Lock("bus", th)

\* subscribe called by any thread: it takes the bus's lock for its push.
ThreadSubscribe ==
    /\ Free("bus")
    /\ Subscribe

\* A thread calls publish and gets the lock. Its event is the pair of the
\* thread and the number of the publish among the thread's own.
ThreadPublishLock ==
    \E th \in 1..MaxThreads :
        /\ pubs[th].pos = 0
        /\ published < MaxPublished
        /\ Free("bus")
        /\ locks' = BusGuard(th)
        /\ pubs' = [pubs EXCEPT ![th] = [pos |-> 1, event |-> @.event + 1]]
        /\ published' = published + 1
        /\ UNCHANGED <<senders, chan, alive, recvd, sentAt, publishing, runner, qcVars, conc, routerVars,
                       pipeVars, queueVars, memVars>>

\* publish, lines 62-65, on the thread holding the guard: one send of the
\* loop, and after the last sender the guard is dropped.
ThreadPublishSend ==
    \E th \in 1..MaxThreads :
        /\ pubs[th].pos # 0
        /\ IF pubs[th].pos > Len(senders)
           THEN /\ pubs' = [pubs EXCEPT ![th].pos = 0]
                /\ locks' = Unlock("bus")
                /\ UNCHANGED chan
           ELSE LET sub == senders[pubs[th].pos]
                    sent == sub \in alive
                IN /\ chan' = IF sent THEN [chan EXCEPT ![sub] = Append(@, <<th, pubs[th].event>>)] ELSE chan
                   /\ pubs' = [pubs EXCEPT ![th].pos = AfterSend(@, sent)]
                   /\ UNCHANGED locks
        /\ UNCHANGED <<senders, alive, recvd, sentAt, published, publishing, runner, qcVars, conc, routerVars,
                       pipeVars, queueVars, memVars>>

NextPublishers == ThreadSubscribe \/ ThreadPublishLock \/ ThreadPublishSend \/ Recv \/ DropReceiver

SpecPublishers == InitBus /\ [][NextPublishers]_vars

\* ------------------------------------------------------------------ careless optimiser

\* Playbooks of the tasks 1..n in this order, each task with at most one
\* depends_on entry, which names a task id: itself, another task of the
\* playbook (cycles included) or a task the playbook does not hold.
ChainPlaybooks ==
    {p \in Playbooks(TRUE, {"absent"}) :
        /\ \A i \in 1..Len(p) : p[i].id = i
        /\ \A i \in 1..Len(p) : Cardinality(p[i].depends_on) <= 1 /\ UnknownId \notin p[i].depends_on}

\* The pipeline of an orchestrator with max_concurrency 1 and an optimiser
\* whose order has a mistake in it, run without cancellation and without
\* errors.
InitCareless ==
    /\ InitPipeline(ChainPlaybooks, {"careless"}, {"plain"}) /\ max_concurrency = 1
    /\ InitQueueIdle /\ InitMemoryIdle /\ InitAssocIdle /\ InitRestIdle

SpecCareless == InitCareless /\ [][NextOrder]_vars

\* ------------------------------------------------------------------ run_one on threads

\* The workers of an orchestrator: n workers, by turns one named "x" that
\* can handle no task and one named "y" that can handle the tasks of kind "a".
WorkerPool(n) == [i \in 1..n |-> IF i % 2 = 1 THEN Worker("x", {}) ELSE Worker("y", {"a"})]

\* The router of one execute_with_delegation (BanditRouter::from_env() with
\* ORCH_ROUTER_EPS unset: 0.1) and its workers; each thread calls run_one
\* once, as a scheduler that runs tasks side by side does.
InitRunOne ==
    /\ InitCoreIdle /\ InitQcIdle /\ InitConcIdle /\ InitBusIdle /\ InitRunIdle
    /\ rworkers \in {WorkerPool(n) : n \in 0..MaxWorkers}
    /\ eps = "some"
    /\ stats = <<>>
    /\ decision = None

NextRunOne ==
    \/ Enter \/ Published \/ BeforeTask \/ LockWorkers \/ ChooseDirect \/ ExploitLock \/ Exploited
    \/ WorkerRun \/ MergeLock \/ Merged \/ Persist \/ AfterTask \/ DoneLock \/ MetricInc
    \/ ObserveLock \/ ObserveDone

SpecRunOne == InitRunOne /\ [][NextRunOne]_vars

\* ------------------------------------------------------------------ claims

\* The ids of the playbook in its input order.
InputOrder == [i \in 1..Len(playbook) |-> playbook[i].id]

\* The depends_on edges between tasks of the playbook admit a topological
\* order.
IsDag(tasks) ==
    \E o \in Orders(IdsOf(tasks)) :
        \A i, j \in 1..Len(o) : o[i] \in DepsOf(tasks, o[j]) => i < j

\* Where the events about a task stand in the event log.
StartAt(id) == {i \in 1..Len(events) : IsStart(events[i], id)}

DoneAt(id) == {i \in 1..Len(events) : IsDone(events[i], id)}

PolicyBeforeAt(id) == {i \in 1..Len(events) : events[i].message = "policy:before" /\ events[i].arg = Some(id)}

PolicyAfterAt(id) == {i \in 1..Len(events) : events[i].message = "policy:after" /\ events[i].arg = Some(id)}

\* C1 (as claimed): on a playbook whose depends_on edges form a DAG, a task is
\* started only after every task of the playbook that it depends on was
\* started.
C1_Precedence ==
    IsDag(playbook) =>
        \A b \in IdsOf(playbook) : \A i \in StartAt(b) :
            \A a \in DepsOf(playbook, b) \cap IdsOf(playbook) :
                \E j \in StartAt(a) : j < i

\* C2 (as claimed): on a playbook without depends_on, when the optimiser
\* returned an order of all the tasks, the task:start events of a completed
\* run are in that order.
C2_OptimiserOrderKept ==
    (ret = Ok /\ ~optFailed /\ EdgeCount(playbook) = 0 /\ delta \in Orders(IdsOf(playbook)))
        => Starts(events) = delta

\* The playbook with every depends_on entry that names no task removed.
WithoutUnknownDeps(tasks) ==
    [i \in 1..Len(tasks) |-> Task(tasks[i].id, tasks[i].needs_write_lock,
                                  tasks[i].depends_on \cap IdsOf(tasks))]

\* C3 (as claimed): the reconciled list is one the reconciliation produces
\* for the playbook without its unknown depends_on entries, and the run
\* does not fail.
C3_UnknownDepsDropped ==
    pc \in {"schedule", "returned"} =>
        /\ ordered \in topo_order_with_hint(WithoutUnknownDeps(playbook))
        /\ ret.tag # "Err"

\* C4 (as claimed): when the optimiser failed, the run returns Ok, and on a
\* playbook without depends_on the tasks are started in the input order.
C4_FallbackKeepsInputOrder ==
    (optFailed /\ pc = "returned") =>
        /\ ret = Ok
        /\ EdgeCount(playbook) = 0 => Starts(events) = InputOrder

\* C5: a task that needs the write lock is inside run_one only while no other
\* task is.
C5_WriteLockExclusion ==
    \A id \in InRunOne : NeedsWriteLock(TaskOf(playbook, id)) => InRunOne = {id}

\* C5 witness: the second task of a playbook, one that needs the write lock,
\* is with its worker after the first task returned.
C5_Witness ==
    \E id \in InRunOne :
        /\ NeedsWriteLock(TaskOf(playbook, id))
        /\ tpc[id] = "merge"
        /\ \E other \in IdsOf(playbook) : tpc[other] = "returned"

\* C9 (as claimed): for a task whose run_one returned Ok, the events are in
\* the order policy-before, task-start, task-done, policy-after.
C9_OrderAsClaimed ==
    \A id \in IdsOf(playbook) : tpc[id] = "returned" =>
        \E b \in PolicyBeforeAt(id), s \in StartAt(id), d \in DoneAt(id), a \in PolicyAfterAt(id) :
            b < s /\ s < d /\ d < a

\* C9 (amended): for a task whose run_one returned Ok, there is exactly one
\* event of each kind and they are in the order task-start, policy-before,
\* policy-after, task-done.
C9_EventOrder ==
    \A id \in IdsOf(playbook) : tpc[id] = "returned" =>
        /\ Cardinality(StartAt(id)) = 1 /\ Cardinality(PolicyBeforeAt(id)) = 1
        /\ Cardinality(PolicyAfterAt(id)) = 1 /\ Cardinality(DoneAt(id)) = 1
        /\ \E s \in StartAt(id), b \in PolicyBeforeAt(id), a \in PolicyAfterAt(id), d \in DoneAt(id) :
              s < b /\ b < a /\ a < d

\* C9 witness: both tasks of a playbook ran and succeeded.
C9_Witness ==
    /\ Len(playbook) = 2
    /\ \A id \in IdsOf(playbook) : tpc[id] = "returned"

\* Cancelled, with no run_one under way and execute_with_delegation not
\* returned.
Quiet == canceled /\ InRunOne = {} /\ pc # "returned"

NoNewTaskEvent ==
    /\ Len(events') >= Len(events)
    /\ \A i \in (Len(events) + 1)..Len(events') : events'[i].message \notin {"task:start", "task:done"}

\* C10: once cancelled with no run_one under way (before execute_with_delegation
\* as well), no step invokes a hook or a worker, changes the memory or
\* publishes task:start or task:done, and the state stays so until
\* execute_with_delegation returns Ok; and once cancelled no task:start is
\* published at all and only a run_one under way at the cancellation can
\* fail.
C10_CancelSkips ==
    [][/\ Quiet => /\ calls' = calls
                  /\ memory' = memory
                  /\ NoNewTaskEvent
                  /\ (Quiet' \/ (pc' = "returned" /\ ret' = Ok))
       /\ canceled => /\ canceled'
                     /\ Starts(events') = Starts(events)
                     /\ (ret'.tag = "Err" => InRunOne # {})]_vars

\* C10 witness: cancelled while the first task ran; the second was skipped
\* and execute_with_delegation returned Ok.
C10_Witness ==
    /\ pc = "returned" /\ ret = Ok /\ canceled
    /\ \E id \in IdsOf(playbook) : tpc[id] = "returned"
    /\ \E id \in IdsOf(playbook) : tpc[id] = "skipped"


\* The payload's needs_write_lock is the boolean true.
IsWrite(t) == t.needs_write_lock = "true"

\* The positions of a queue that pop_eligible(w) may return.
Admissible(q, w) == {i \in 1..Len(q) : w = 0 \/ ~IsWrite(q[i])}

\* C6: a pop_eligible(w) returns and removes the head when w = 0 and the
\* first task whose needs_write_lock is false or absent when w > 0, leaves
\* the other tasks as they were, returns None (and leaves the queue alone)
\* exactly when there is no such task, and its flag is the returned task's
\* needs_write_lock.
C6_PopEligibleRule ==
    [][lastOp'.op = "pop_eligible" =>
          LET w == lastOp'.w
              ok == Admissible(queue, w)
          IN IF ok = {}
             THEN lastOp'.ret = None /\ queue' = queue
             ELSE \E i \in ok :
                     /\ \A j \in ok : i <= j
                     /\ w = 0 => i = 1
                     /\ lastOp'.ret = Some(queue[i])
                     /\ lastOp'.flag = IsWrite(queue[i])
                     /\ queue' = RemoveAt(queue, i)]_vars

\* C6 witness: with a write in flight, pop_eligible passed over the write
\* task at the head and returned a task without needs_write_lock.
C6_Witness ==
    /\ lastOp.op = "pop_eligible" /\ lastOp.w > 0 /\ lastOp.ret # None
    /\ lastOp.ret[1].needs_write_lock = "absent" /\ lastOp.flag = FALSE
    /\ queue # <<>> /\ IsWrite(queue[1]) /\ queue[1].id < lastOp.ret[1].id

\* The tasks of a sequence are in the order they were pushed.
InPushOrder(q) == \A i, j \in 1..Len(q) : i < j => q[i].id < q[j].id

\* The tasks of a sequence that do not need the write lock.
NonWrite(q) == SelectSeq(q, LAMBDA t : ~IsWrite(t))

\* C7: after every operation the queued tasks are in the order they were
\* pushed, the non-write tasks returned so far are in the order they were
\* pushed, and a pop returns and removes the oldest queued task, None on an
\* empty queue.
C7_Fifo ==
    [][/\ InPushOrder(queue')
       /\ InPushOrder(NonWrite(popped'))
       /\ lastOp'.op = "pop" =>
             IF queue = <<>>
             THEN lastOp'.ret = None /\ queue' = queue
             ELSE /\ lastOp'.ret = Some(Head(queue))
                  /\ \A i \in 1..Len(queue) : Head(queue).id <= queue[i].id
                  /\ queue' = Tail(queue)]_vars

\* C7 witness: after two pushes, one non-write task was returned by
\* pop_eligible past a write task, the write task and another non-write
\* task by pop.
C7_Witness ==
    /\ lastOp.op = "pop" /\ lastOp.ret # None
    /\ Len(popped) = 3 /\ Len(NonWrite(popped)) = 2
    /\ IsWrite(popped[2]) /\ popped[2].id < popped[1].id

\* C8 (as claimed): a task that needs the write lock is in flight only
\* alone.
C8_ExclusionAsClaimed ==
    \A t \in inFlight : IsWrite(t) => inFlight = {t}

\* C8 (amended): at most one task that needs the write lock is in flight.
C8_WriteExclusion ==
    Cardinality({t \in inFlight : IsWrite(t)}) <= 1

\* C8 witness: a write task is in flight and a second write task waits at
\* the head of the queue while a task behind it was admitted.
C8_Witness ==
    /\ \E t \in inFlight : IsWrite(t)
    /\ queue # <<>> /\ IsWrite(queue[1])
    /\ \E t \in inFlight : ~IsWrite(t) /\ queue[1].id < t.id


\* The positions of the Warn events with message "canceled".
WarnCanceledAt == {i \in 1..Len(events) : events[i].kind = "Warn" /\ events[i].message = "canceled"}

\* C11 (as claimed): when cancel was called before execute_with_delegation,
\* the call on a playbook with at least one task publishes exactly one
\* Warn event with message "canceled".
C11_SingleWarn ==
    (canceledAt = "idle" /\ pc = "returned" /\ playbook # <<>>) => Cardinality(WarnCanceledAt) = 1

\* C12 (as claimed): when execute_with_delegation returned Err, an event of
\* kind Error was published and no playbook:done; when it returned Ok, the
\* last event is playbook:done.
C12_ErrorEventOnFailure ==
    /\ ret.tag = "Err" =>
          /\ \E i \in 1..Len(events) : events[i].kind = "Error"
          /\ \A i \in 1..Len(events) : events[i].message # "playbook:done"
    /\ ret = Ok => events # <<>> /\ events[Len(events)].message = "playbook:done"

\* The invocations of hooks and workers for a task.
CallsFor(id) == {i \in 1..Len(calls) : calls[i][2] = id}

\* C13: once a hook or a worker returned Err to a run_one,
\* execute_with_delegation has returned: Internal(msg) for a hook that failed
\* with msg, the worker's own error for a worker; the task failed, and no
\* task after it has a task:start, a hook call or a worker run.
C13_ErrorsAbort ==
    raised.by # "none" =>
        /\ pc = "returned"
        /\ ret = (IF raised.by = "run" THEN raised.err
                  ELSE [tag |-> "Err", err |-> "Internal", msg |-> raised.err])
        /\ tpc[raised.id] = "failed"
        /\ \A id \in Range(rest) : tpc[id] = "pending" /\ StartAt(id) = {} /\ CallsFor(id) = {}
        /\ Range(rest) = {id \in IdsOf(playbook) : tpc[id] = "pending"}

\* C13 witness: the worker of the first task failed with Unsupported and the
\* second task was never started.
C13_Witness ==
    /\ raised.by = "run" /\ raised.err.err = "Unsupported"
    /\ rest # <<>> /\ ret.tag = "Err"


\* The merges of hist that returned.
MergesDone == {i \in 1..Len(hist) : hist[i].op = "merge" /\ hist[i].ret # None}

\* new is old with patch merged in: objects key by key, anything else
\* replaced by the patch (nothing is said where both hold an array).
RECURSIVE DeepMerged(_, _, _)
DeepMerged(old, patch, new) ==
    IF old.t = "obj" /\ patch.t = "obj"
    THEN /\ new.t = "obj"
         /\ DOMAIN new.v = DOMAIN old.v \cup DOMAIN patch.v
         /\ \A k \in DOMAIN new.v :
               IF k \notin DOMAIN patch.v THEN new.v[k] = old.v[k]
               ELSE IF k \notin DOMAIN old.v THEN new.v[k] = patch.v[k]
               ELSE DeepMerged(old.v[k], patch.v[k], new.v[k])
    ELSE IF old.t = "arr" /\ patch.t = "arr" THEN TRUE
    ELSE new = patch

\* C14: a merge with an object state_patch returns a state with every key of
\* the patch merged recursively and every other key as it was (a null state
\* counts as {}), and a todo list with todo_add appended; on the empty
\* snapshot {a:{b:1}} with one todo gives a.b = 1 and one todo; a load that
\* follows a merge returns the snapshot the merge returned.
C14_DeepMerge ==
    /\ \A i \in MergesDone :
          LET e == hist[i]
              old == IF e.before.state.t = "null" THEN [t |-> "obj", v |-> <<>>] ELSE e.before.state
              new == e.ret[1]
          IN /\ e.arg.state_patch.t = "obj" => DeepMerged(old, e.arg.state_patch, new.state)
             /\ Len(new.todo) = Len(e.before.todo) + Len(e.arg.todo_add)
             /\ \A j \in 1..Len(e.before.todo) : new.todo[j].title = e.before.todo[j].title
             /\ \A j \in 1..Len(e.arg.todo_add) :
                   new.todo[Len(e.before.todo) + j] = e.arg.todo_add[j]
             /\ (e.before = [state |-> [t |-> "null", v |-> {}], todo |-> <<>>]
                   /\ e.arg.state_patch = [t |-> "obj", v |-> ("a" :> [t |-> "obj", v |-> ("b" :> [t |-> "num", v |-> 1])])]
                   /\ Len(e.arg.todo_add) = 1)
                => new.state.v["a"].v["b"].v = 1 /\ Len(new.todo) = 1
    /\ \A i \in 2..Len(hist) :
          (hist[i].op = "load" /\ (i - 1) \in MergesDone) => hist[i].ret = hist[i - 1].ret

\* C14 witness: {a:{c:2}} was merged into a state that held a.b = 1 and gave
\* a state with a.b and a.c, and a load followed.
C14_Witness ==
    \E i \in MergesDone :
        /\ HasKey(hist[i].before.state, "a") /\ HasKey(hist[i].before.state.v["a"], "b")
        /\ HasKey(hist[i].arg.state_patch, "a") /\ HasKey(hist[i].arg.state_patch.v["a"], "c")
        /\ DOMAIN hist[i].ret[1].state.v["a"].v = {"b", "c"}
        /\ i < Len(hist) /\ hist[i + 1].op = "load"

\* C15 (as claimed): where the state and the state_patch of a merge both hold
\* an array under a key, the returned state holds under that key the old
\* array followed by the patch array.
C15_ArraysConcatenate ==
    \A i \in MergesDone :
        LET e == hist[i]
        IN (e.before.state.t = "obj" /\ e.arg.state_patch.t = "obj") =>
              \A k \in DOMAIN e.before.state.v \cap DOMAIN e.arg.state_patch.v :
                  (e.before.state.v[k].t = "arr" /\ e.arg.state_patch.v[k].t = "arr") =>
                      e.ret[1].state.v[k] = [t |-> "arr", v |-> e.before.state.v[k].v \o e.arg.state_patch.v[k].v]

\* C16 (as claimed): for the trees a, b, c, merging b into a and then c into
\* the result equals merging into a the merge of c into b.
C16_Associative ==
    (assoc.applied /\ assoc.a.t # "null") => assoc.left = assoc.right

\* The later patch c holds an object at a path where the earlier patch b
\* holds a value that is not an object.
RECURSIVE ObjectOverValue(_, _)
ObjectOverValue(b, c) ==
    IF b.t = "obj" /\ c.t = "obj"
    THEN \E k \in DOMAIN b.v \cap DOMAIN c.v : ObjectOverValue(b.v[k], c.v[k])
    ELSE b.t # "obj" /\ c.t = "obj"

\* C16 (amended): the two ways of merging are equal whenever c holds no
\* object at a path where b holds a value that is not an object.
C16_AssociativeWhenCompatible ==
    (assoc.applied /\ assoc.a.t # "null" /\ ~ObjectOverValue(assoc.b, assoc.c)) => assoc.left = assoc.right

\* C16 witness: three objects that nest under the same key were merged both
\* ways, with the same result holding the keys of all three.
C16_Witness ==
    /\ assoc.applied /\ ~ObjectOverValue(assoc.b, assoc.c)
    /\ assoc.a.t = "obj" /\ assoc.b.t = "obj" /\ assoc.c.t = "obj" /\ assoc.b # assoc.c
    /\ HasKey(assoc.left, "k") /\ assoc.left.v["k"].t = "obj" /\ DOMAIN assoc.left.v["k"].v = {"x", "y"}
    /\ HasKey(assoc.left, "j")
    /\ assoc.left = assoc.right

\* C17: every operation that returned has returned the snapshot it returns
\* when the operations run one after the other in the order they took the
\* lock (an order that keeps each thread's own order), and whenever no merge
\* is under way the service holds the snapshot of that sequential run.
C17_Linearisable ==
    /\ \A i \in 1..Len(hist) : hist[i].ret # None => hist[i].ret = Some(SeqSnap(i))
    /\ mutex = 0 => Snapshot(memory, todo) = SeqSnap(Len(hist))
    /\ \A th \in 1..MaxThreads : thr[th] # 0 => hist[thr[th]].th = th /\ hist[thr[th]].ret = None

\* C17 witness: one thread merged a delta with a todo, another thread loaded
\* the snapshot and then began a merge of its own, which holds the lock.
C17_Witness ==
    /\ Len(hist) = 3
    /\ 1 \in MergesDone /\ hist[1].arg.todo_add # <<>>
    /\ hist[2].op = "load" /\ hist[2].th # hist[1].th
    /\ hist[3].op = "merge" /\ hist[3].ret = None /\ mutex = hist[2].th


\* The tasks, in the order they were started, that are at one of the given
\* positions of run_one.
StartedAt(positions) == SelectSeq(Starts(events), LAMBDA id : tpc[id] \in positions)

\* The state a new memory service holds after the state patches of the given
\* tasks were merged in that order.
RECURSIVE MergedState(_)
MergedState(ids) ==
    IF ids = <<>> THEN JNull
    ELSE MemoryMerge(MergedState(SubSeq(ids, 1, Len(ids) - 1)), StatePatch(result[ids[Len(ids)]]))

\* tree holds every key of patch with the value patch gives it.
RECURSIVE Holds(_, _)
Holds(tree, patch) ==
    IF patch.t = "obj"
    THEN tree.t = "obj" /\ \A k \in DOMAIN patch.v : k \in DOMAIN tree.v /\ Holds(tree.v[k], patch.v[k])
    ELSE tree = patch

\* Task t was started before task u.
StartedBefore(t, u) == \E i \in StartAt(t), j \in StartAt(u) : i < j

Under(patches, k) == {q.v[k] : q \in {x \in patches : x.t = "obj" /\ k \in DOMAIN x.v}}

\* tree holds what patch wrote, except at the paths one of the later patches
\* wrote too; no key of an object that is still an object has gone.
RECURSIVE KeptOrOverwritten(_, _, _)
KeptOrOverwritten(tree, patch, later) ==
    IF patch.t = "obj" /\ tree.t = "obj"
    THEN \A k \in DOMAIN patch.v :
            HasKey(tree, k) /\ KeptOrOverwritten(tree.v[k], patch.v[k], Under(later, k))
    ELSE tree = patch \/ later # {}

C19_OnlySuccessfulPersisted ==
    pc = "returned" => disk = MergedState(StartedAt({"returned"}))

\* C20: when the worker of a task u is about to run, every task started
\* before u has returned, the memory is the merge of their outputs in the
\* order they were executed, and the snapshot on disk is that memory.
C20_MergedBeforeNext ==
    \A u \in IdsOf(playbook) : tpc[u] = "worker" =>
        LET earlier == SelectSeq(Starts(events), LAMBDA t : t # u)
        IN /\ \A i \in 1..Len(earlier) : tpc[earlier[i]] = "returned"
           /\ memory = MergedState(earlier)
           /\ disk = memory
           /\ \A i \in 1..Len(earlier) : HasKey(memory, "last_result")

\* C20 witness: the worker of the second task is about to run and the memory
\* and the disk hold the output of the first.
C20_Witness ==
    \E t, u \in IdsOf(playbook) :
        /\ tpc[u] = "worker" /\ tpc[t] = "returned"
        /\ Holds(memory, StatePatch(result[t]))
        /\ HasKey(memory, "shared")
        /\ disk = memory


\* C21: an optimiser compared with itself ties: whenever compare is handed
\* the same optimiser twice, the winner is "tie" and the two costs are equal.
C21_TieOnIdentical ==
    (qout.op = "compare" /\ qout.classical = qout.qc)
        => (qout.winner = "tie" /\ qout.classical_cost = qout.qc_cost)

\* The position of a task in an order (0 when it is absent).
PosIn(order, id) == IF id \in Range(order) THEN CHOOSE i \in 1..Len(order) : order[i] = id ELSE 0

\* The depends_on edges of an instance: <<t, d>> when task t depends on d.
EdgesOf(inst) == UNION {{<<inst.tasks[i].id, d>> : d \in inst.tasks[i].depends_on} : i \in 1..Len(inst.tasks)}

\* An order places every task after the tasks it depends on.
RespectsEdges(inst, order) == \A e \in EdgesOf(inst) : PosIn(order, e[2]) < PosIn(order, e[1])

\* C22: the comparator penalises precedence violations: when the classical
\* order respects every depends_on edge and the other optimiser's order
\* breaks one, compare(classical, other, inst) names classical the winner.
C22_ViolationLoses ==
    (/\ qout.op = "compare"
     /\ qout.classical = "classical"
     /\ RespectsEdges(qinst, qout.base.order)
     /\ ~RespectsEdges(qinst, qout.qc_delta.order))
        => qout.winner = "classical"

\* The positions of the A/B summary events (message qc_ab:winner=...).
AbAt == {i \in 1..Len(events) : events[i].message \in {AbMessage(w) : w \in {"qc", "classical", "tie"}}}

\* C23: the A/B comparison is informational: a call publishes one qc_ab
\* event, never two, before every task:start event, and a completed run
\* that was not cancelled started the tasks in the order of the delta in
\* use, whoever won the comparison.
C23_AbInformational ==
    /\ Cardinality(AbAt) <= 1
    /\ pc \notin {"idle", "compare"} => Cardinality(AbAt) = 1
    /\ \A i \in AbAt, j \in 1..Len(events) : events[j].message = "task:start" => i < j
    /\ (ret = Ok /\ ~canceled) => Starts(events) = delta

\* The tasks of an instance that a loop taking only tasks whose dependencies
\* were all taken can ever take, starting from the tasks in S.
RECURSIVE Takeable(_, _)
Takeable(inst, S) ==
    LET T == S \cup {inst.tasks[i].id : i \in {j \in 1..Len(inst.tasks) : inst.tasks[j].depends_on \subseteq S}}
    IN IF T = S THEN S ELSE Takeable(inst, T)

\* No dependency cycle: every task can be taken.
Acyclic(inst) == Takeable(inst, {}) = InstIds(inst)

\* The priority of a task of an instance.
PriorityOf(inst, id) == inst.tasks[CHOOSE i \in 1..Len(inst.tasks) : inst.tasks[i].id = id].priority

\* The tasks not among the first k - 1 of an order whose dependencies all are.
ReadyAt(inst, order, k) ==
    LET placed == {order[j] : j \in 1..(k - 1)}
    IN {inst.tasks[i].id : i \in {j \in 1..Len(inst.tasks) :
                                     /\ inst.tasks[j].id \notin placed
                                     /\ inst.tasks[j].depends_on \subseteq placed}}

\* C24: on an acyclic instance the classical optimiser returns an order of
\* all the tasks in which every task comes after the tasks it depends on and
\* every position holds a task of greatest priority among the tasks whose
\* dependencies are all placed earlier; the confidence is 0.5.
C24_DepsAndPriority ==
    (qout.op = "optimize" /\ Acyclic(qinst))
        => /\ qout.order \in Orders(InstIds(qinst))
           /\ RespectsEdges(qinst, qout.order)
           /\ \A k \in 1..Len(qout.order) :
                 /\ qout.order[k] \in ReadyAt(qinst, qout.order, k)
                 /\ \A r \in ReadyAt(qinst, qout.order, k) :
                       PriorityOf(qinst, qout.order[k]) >= PriorityOf(qinst, r)
           /\ qout.confidence = 5

\* C24 witness: the instance of tests/smoke.rs, A (priority 0), B (priority
\* 5, after A), C (priority 10), was ordered C, A, B.
C24_Witness ==
    /\ qout.op = "optimize"
    /\ qinst.tasks = <<QuboTask(1, 0, FALSE, {}), QuboTask(2, 5, FALSE, {1}), QuboTask(3, 10, FALSE, {})>>
    /\ qout.order = <<3, 1, 2>>

\* The workers of the slice with a given name, and those that can handle a task.
Named(name) == {i \in 0..(Len(rworkers) - 1) : rworkers[i + 1].name = name}

Able(task) == {i \in 0..(Len(rworkers) - 1) : task.kind \in rworkers[i + 1].handles}

\* C25: the router decides by precedence: a task whose payload.worker is the
\* name of a worker gets the first worker of that name, whatever the workers
\* can handle and whatever the statistics; any other task gets the first
\* worker that can handle it; only a task no worker can handle is routed by
\* the bandit (explore or exploit).
C25_Precedence ==
    decision # None =>
        LET d == decision[1]
            named == IF d.task.worker = None THEN {} ELSE Named(d.task.worker[1])
        IN IF named # {} THEN d.reason = "explicit" /\ d.index \in named /\ \A i \in named : d.index <= i
           ELSE IF Able(d.task) # {}
                THEN d.reason = "capability" /\ d.index \in Able(d.task) /\ \A i \in Able(d.task) : d.index <= i
                ELSE d.reason \in {"explore", "exploit"}

\* C25 witness: a task naming the second worker, which cannot handle it, was
\* routed to it although the first worker can handle it and has been observed.
C25_Witness ==
    /\ decision # None
    /\ decision[1].reason = "explicit"
    /\ decision[1].index = 1
    /\ Able(decision[1].task) = {0}
    /\ 0 \in DOMAIN stats

\* The least of three numbers.
Min3(a, b, c) == Min2(Min2(a, b), c)

\* C26: the target concurrency is min(cap, cpus - 1, total_tasks), capped
\* further by ORCH_MAX_CONCURRENCY when it is set: the override lowers the
\* target or leaves it, and the target never exceeds cap. Stated for a cap,
\* a CPU limit and a workload of 1 or more (the code counts less as 1).
C26_OverrideOnlyLowers ==
    (conc.called /\ conc.cap >= 1 /\ conc.cpus >= 2 /\ conc.total_tasks >= 1)
        => /\ conc.env_cap = None => conc.target = Min3(conc.cap, conc.cpus - 1, conc.total_tasks)
           /\ conc.env_cap # None
                 => conc.target = Min2(Min3(conc.cap, conc.cpus - 1, conc.total_tasks), conc.env_cap[1])
           /\ conc.target <= conc.cap

\* The events a..b in publish order.
EventsFromTo(a, b) == [i \in 1..(IF b >= a THEN b - a + 1 ELSE 0) |-> a + i - 1]

\* The last event whose send to subscriber sub has happened: the publish in
\* progress has reached the senders before `publishing` only.
SentUpTo(sub) == IF publishing # 0 /\ sub >= publishing THEN published - 1 ELSE published

\* C27: fan-out is per-subscriber FIFO: what a live subscriber has received,
\* followed by what waits in its channel, is every event published since it
\* subscribed, once each and in publish order, whether or not other
\* subscribers dropped their receivers; a subscriber that dropped its
\* receiver had received a prefix of them.
C27_FanOutFifo ==
    \A sub \in 1..Len(senders) :
        IF sub \in alive
        THEN recvd[sub] \o chan[sub] = EventsFromTo(sentAt[sub] + 1, SentUpTo(sub))
        ELSE \E n \in sentAt[sub]..published : recvd[sub] = EventsFromTo(sentAt[sub] + 1, n)

\* C27 witness: the first of two subscribers dropped its receiver having
\* received nothing, and the second, which subscribed after the first
\* event, received the second event.
C27_Witness ==
    /\ Len(senders) = 2
    /\ alive = {2}
    /\ recvd[1] = <<>>
    /\ sentAt[2] = 1
    /\ recvd[2] = <<2>>
    /\ publishing = 0

\* The ready tasks of greatest priority at position k of an order.
BestReadyAt(inst, order, k) ==
    {r \in ReadyAt(inst, order, k) :
        \A x \in ReadyAt(inst, order, k) : PriorityOf(inst, r) >= PriorityOf(inst, x)}

\* C29: priority ties are broken lexically: every position at which some
\* task is ready holds the least id among the ready tasks of greatest
\* priority (so the order is a function of the instance).
C29_LexicalTies ==
    qout.op = "optimize"
        => \A k \in 1..Len(qout.order) :
              BestReadyAt(qinst, qout.order, k) # {} => qout.order[k] = Min(BestReadyAt(qinst, qout.order, k))

\* C30: on a dependency cycle the tasks the loop could not take follow the
\* tasks it took, in the order they have in the instance's task list.
C30_CycleKeepsListOrder ==
    (qout.op = "optimize" /\ ~Acyclic(qinst))
        => LET taken == Takeable(qinst, {})
               n == Cardinality(taken)
           IN /\ Len(qout.order) = Len(qinst.tasks)
              /\ {qout.order[i] : i \in 1..n} = taken
              /\ SubSeq(qout.order, n + 1, Len(qout.order))
                    = SelectSeq(InstOrder(qinst), LAMBDA id : id \notin taken)

\* The ids Kahn's loop of topo_order_with_hint emits for a list of tasks.
KahnOut(tasks) ==
    LET indeg == [id \in IdsOf(tasks) |-> Cardinality(DepsOf(tasks, id))]
    IN Kahn(tasks, {id \in IdsOf(tasks) : indeg[id] = 0}, indeg, <<>>)

\* C31 (as claimed): on a playbook whose depends_on edges contain a cycle,
\* the reconciliation does not fail and returns the tasks Kahn's loop emitted
\* followed by the tasks it left, these in the order they had in the list
\* handed to the reconciliation.
C31_ResidueInInsertionOrder ==
    [][(pc = "topo" /\ pc' = "schedule" /\ ~IsDag(playbook))
        => LET out == KahnOut(TasksIn(playbook, ordered))
           IN /\ ret'.tag # "Err"
              /\ ordered' = out \o SelectSeq(ordered, LAMBDA id : id \notin Range(out))]_vars

\* The observed success rate of worker i as the fraction <<successes, tries>>,
\* a worker with zero tries counted as 1/2.
ObservedRate(i) == IF i \in DOMAIN stats /\ stats[i][1] > 0 THEN <<stats[i][2], stats[i][1]>> ELSE <<1, 2>>

\* The rate of worker i is at least the rate of worker j.
AtLeast(i, j) == ObservedRate(i)[1] * ObservedRate(j)[2] >= ObservedRate(j)[1] * ObservedRate(i)[2]

\* The index is the lowest one of maximal observed rate.
LowestOfMaximalRate(index) ==
    /\ \A j \in 0..(Len(rworkers) - 1) : AtLeast(index, j)
    /\ \A j \in 0..(index - 1) : ~AtLeast(j, index)

\* C32 (as claimed): the exploit branch returns a worker index of maximal
\* observed rate, the lowest among equal rates, and the explore branch
\* returns a valid index of the worker list.
C32_ExploitRuleAsClaimed ==
    decision # None =>
        /\ decision[1].reason = "exploit"
              => decision[1].index \in 0..(Len(rworkers) - 1) /\ LowestOfMaximalRate(decision[1].index)
        /\ decision[1].reason = "explore" => decision[1].index \in 0..(Len(rworkers) - 1)

\* C32 (amended): for a worker list that is not empty, the exploit branch
\* returns the lowest worker index of maximal observed rate and the explore
\* branch a valid index; for an empty list both branches return index 0.
C32_ExploitRule ==
    decision # None =>
        /\ (decision[1].reason \in {"exploit", "explore"} /\ rworkers = <<>>) => decision[1].index = 0
        /\ (decision[1].reason = "exploit" /\ rworkers # <<>>)
              => decision[1].index \in 0..(Len(rworkers) - 1) /\ LowestOfMaximalRate(decision[1].index)
        /\ (decision[1].reason = "explore" /\ rworkers # <<>>) => decision[1].index \in 0..(Len(rworkers) - 1)

\* C32: the exploit branch took the second worker because the first one
\* failed when it was tried.
C32_Witness ==
    /\ decision # None
    /\ decision[1].reason = "exploit"
    /\ decision[1].index = 1
    /\ 0 \in DOMAIN stats

\* The threads whose run_one is inside the worker's run.
InWorkerRun == {th \in 1..MaxThreads : runner[th].pc = "run"}

\* C33 (as claimed): while a worker's run is executing in run_one, the thread
\* holds none of the core's mutexes: not the workers list's, not the
\* memory's, not the router statistics', not the event bus's.
C33_NoMutexAcrossRunAsClaimed ==
    \A th \in InWorkerRun : \A m \in Mutexes : locks[m] # th

\* C33 (amended): while a worker's run is executing in run_one, the thread
\* holds the mutex of the workers list and none of the mutexes of the memory,
\* the router statistics and the event bus.
C33_OnlyWorkersMutexAcrossRun ==
    \A th \in InWorkerRun :
        /\ locks["workers"] = th
        /\ \A m \in Mutexes \ {"workers"} : locks[m] # th

\* C33: a worker's run is executing on one thread while another thread
\* holds the mutex of the router statistics.
C33_Witness ==
    \E th \in InWorkerRun : \E other \in (1..MaxThreads) \ {th} :
        /\ locks["stats"] = other
        /\ runner[other].pc = "observing"

\* C34: without cancellation and without failing tasks, the tasks started
\* are at every moment tasks of the playbook, each started at most once, and
\* when execute_with_delegation has returned each was started exactly once,
\* whatever order the optimiser returned and whatever the depends_on edges.
C34_EachTaskOnce ==
    /\ \A i \in 1..Len(Starts(events)) : Starts(events)[i] \in IdsOf(playbook)
    /\ \A i, j \in 1..Len(Starts(events)) : Starts(events)[i] = Starts(events)[j] => i = j
    /\ pc = "returned" => (ret = Ok /\ Range(Starts(events)) = IdsOf(playbook))

\* C34: a run has returned on a playbook of two tasks whose depends_on edges
\* contain a cycle, with an optimiser whose order left a task out and named
\* an id that is not in the playbook.
C34_Witness ==
    /\ pc = "returned"
    /\ Len(playbook) = 2
    /\ ~IsDag(playbook)
    /\ ~optFailed
    /\ UnknownId \in Range(delta)
    /\ IdsOf(playbook) \ Range(delta) # {}

\* C35 (as claimed): no task is lost by pop_eligible, also on a queue that
\* keeps the trait's pop_eligible: a call that returns None leaves the queue
\* as it was, and every pushed task is still queued or was returned by pop or
\* pop_eligible.
C35_NoTaskLost ==
    [][/\ (lastOp'.op = "pop_eligible" /\ lastOp'.ret = None) => queue' = queue
       /\ IdsOf(queue') \cup IdsOf(popped') = 1..pushed']_vars

\* What run_one does to the state it shares after the worker's run: the
\* merge into memory, the files written, the after_task hook, the task:done
\* event, the tasks_completed metric, the router's counts.
AfterRun == {"merge", "persist", "after_task", "done", "metric", "observe"}

\* C36: a run_one whose worker returned Err has returned that error and has
\* done nothing of what follows the worker's run; the router's counts hold
\* only what the run_one calls that reached observe recorded.
C36_FailedRunTouchesNothing ==
    /\ \A th \in 1..MaxThreads :
          runner[th].res = "err" => (runner[th].pc = "failed" /\ runner[th].did \cap AfterRun = {})
    /\ (\A th \in 1..MaxThreads : "observe" \notin runner[th].did) => stats = <<>>

\* C36: the worker of one run_one failed after another run_one, on the same
\* worker, had recorded its outcome with the router.
C36_Witness ==
    \E th \in 1..MaxThreads : \E other \in (1..MaxThreads) \ {th} :
        /\ runner[th].res = "err"
        /\ runner[th].pc = "failed"
        /\ runner[other].pc = "returned"
        /\ runner[other].idx = runner[th].idx
        /\ stats # <<>>

\* The run_one calls that have called observe for worker index i, and those
\* of them that reported a success.
ObservedFor(i) == {th \in 1..MaxThreads : "observe" \in runner[th].did /\ runner[th].idx = i}

SucceededFor(i) == {th \in ObservedFor(i) : runner[th].success = "true"}

\* The router's counts for worker index i: (0, 0) without an entry.
CountsOf(i) == IF i \in DOMAIN stats THEN stats[i] ELSE <<0, 0>>

\* The threads whose observe returns in this step.
Observing == {th \in 1..MaxThreads : runner[th].pc = "observing" /\ runner'[th].pc = "returned"}

\* C37: after every step of run_one calls on several threads, for every
\* worker index tries is the number of observe calls made for it, successes
\* the number of those that reported success, and successes <= tries; a
\* step in which an observe returns changes the counts of its own index
\* only, and every other step, choose included, changes no count.
C37_StatsInvariant ==
    [][/\ \A i \in 0..MaxWorkers :
             /\ CountsOf(i)'[1] = Cardinality(ObservedFor(i)')
             /\ CountsOf(i)'[2] = Cardinality(SucceededFor(i)')
             /\ CountsOf(i)'[2] <= CountsOf(i)'[1]
       /\ \A th \in Observing : \A i \in (0..MaxWorkers) \ {runner[th].idx} : CountsOf(i)' = CountsOf(i)
       /\ Observing = {} => stats' = stats]_vars

\* C37: two run_one calls on different threads have recorded outcomes for
\* the same worker, one a success and one a failure.
C37_Witness ==
    \E i \in 0..(MaxWorkers - 1) :
        /\ CountsOf(i) = <<2, 1>>
        /\ Cardinality(ObservedFor(i)) = 2

\* C38 (as claimed): whatever the cap, the workload, the CPU count and
\* ORCH_MAX_CONCURRENCY, compute_concurrency returns at least 1 and at most
\* max(total_tasks, 1).
C38_TargetUsable ==
    conc.called => (conc.target >= 1 /\ conc.target <= Max2(conc.total_tasks, 1))

\* The tasks of an instance that wait for themselves, for each other in a
\* circle, or for an id that no task carries.
NeverReady(inst) == InstIds(inst) \ Takeable(inst, {})

\* C39: the order the classical optimiser returns holds every task id of the
\* instance exactly once and no other id, whether the depends_on entries
\* form a cycle, name the task itself or name no task at all; the call
\* returns Ok with the confidence 0.5.
C39_Permutation ==
    qout.op = "optimize"
        => /\ qout.order \in Orders(InstIds(qinst))
           /\ Len(qout.order) = Len(qinst.tasks)
           /\ qout.confidence = ClassicalConfidence

\* C39 witness: an instance with a task waiting for an id that no task
\* carries and another waiting for itself was ordered, both of them after
\* the task that was ready.
C39_Witness ==
    /\ qout.op = "optimize"
    /\ Len(qinst.tasks) = 3
    /\ \E a, b \in NeverReady(qinst) :
          /\ a # b
          /\ NoTaskId \in qinst.tasks[a].depends_on
          /\ a \in qinst.tasks[b].depends_on \/ b \in qinst.tasks[b].depends_on
    /\ qout.order[1] \notin NeverReady(qinst)

\* The thread that published an event, and the number of the event among
\* the events of that thread.
PublisherOf(e) == e[1]

NumberOf(e) == e[2]

\* C40: when several threads publish on one bus, two subscribers that both
\* received two events received them in the same relative order, and every
\* subscriber received the events of one publisher in the order in which
\* that publisher published them.
C40_PublishersTotallyOrdered ==
    /\ \A s1, s2 \in 1..Len(recvd) :
          \A i1, j1 \in 1..Len(recvd[s1]), i2, j2 \in 1..Len(recvd[s2]) :
              (recvd[s1][i1] = recvd[s2][i2] /\ recvd[s1][j1] = recvd[s2][j2] /\ i1 < j1) => i2 < j2
    /\ \A s \in 1..Len(recvd) :
          \A i, j \in 1..Len(recvd[s]) :
              (i < j /\ PublisherOf(recvd[s][i]) = PublisherOf(recvd[s][j]))
                  => NumberOf(recvd[s][i]) < NumberOf(recvd[s][j])

\* C40 witness: two subscribers have both received the events of two
\* different threads.
C40_Witness ==
    /\ Len(recvd) >= 2
    /\ Len(recvd[1]) = 2
    /\ recvd[2] = recvd[1]
    /\ PublisherOf(recvd[1][1]) # PublisherOf(recvd[1][2])

====
